---- MODULE Spec2Model ----
(***************************************************************************)
(* Model of the spreadsheet-to-SQL-Server loading pipeline:                *)
(*   - DatabaseMetadataUtils / DuplicateFilter (unique-identifier          *)
(*     resolution and filtering of rows that already exist),               *)
(*   - TableMapper.suggest_column_mappings (fuzzy column mapping),         *)
(*   - ExcelProcessor.detect_column_types (type inference),                *)
(*   - DataValidator.validate_dataframe (validation aggregate).            *)
(* Each component has its own specification (SpecFilter, SpecMapper,       *)
(* SpecTypes, SpecValidator); the variables of the other components keep   *)
(* their initial value.                                                    *)
(***************************************************************************)
EXTENDS Integers, Sequences, FiniteSets, TLC

VARIABLES
    \* ---- destination database (external collaborator) ----
    catalog,        \* constraints of the destination table
    dest,           \* rows stored in the destination table
    \* ---- DuplicateFilter.filter_duplicates / DatabaseMetadataUtils ----
    pc,             \* position of the caller and of the filter it runs
    arg_data,       \* the DataFrame handed to filter_duplicates
    data,           \* local `data` (after the head() truncation)
    best_identifier,\* identifier resolved by filter_duplicates (line 92)
    identifier_used,\* identifier resolved by filter_new_records (line 373)
    key_columns,    \* key columns used by check_records_exist
    start_idx,      \* start of the batch being checked
    exists_flags,   \* flags of the batch being checked (_check_batch_existence)
    exists_in_db,   \* column exists_in_db of result_df
    result,         \* Optional DuplicateFilterResult: <<>> or <<r>>
    queryLog,       \* existence queries issued by this call, in order
    catalogLog,     \* which catalog queries raised, per identifier resolution of this call
    run,            \* number of filter_duplicates calls started
    inserted,       \* TRUE iff every row handed to the insert step was stored
    faults,         \* number of queries that raised so far
    \* ---- DuplicateFilter.remove_internal_duplicates ----
    batch, subset, keep, deduplicated,
    \* ---- EnhancedExcelProcessor.process_excel_file_enhanced ----
    enhanced_call,  \* Optional: the locals of the call in progress
    enhanced_result,\* Optional EnhancedProcessingResult
    caught,         \* the functions whose top-level except clause ran
    stage_log,      \* the stages the call went through, in order
    insert_log,     \* the rows sent to the destination as INSERT statements
    \* ---- TableMapper.suggest_column_mappings ----
    excel_columns, sql_columns, table_structure, fuzz, mappings,
    \* ---- ExcelProcessor.detect_column_types ----
    column, column_type,
    \* ---- ExcelProcessor.fuzzy_match_columns ----
    db_columns, fuzzy_mappings,
    \* ---- DataValidator.validate_dataframe ----
    df, column_mappings, table_constraints, validation,
    \* ---- DataValidator._validate_cell_type ----
    cell_value, cell_expected_type, cell_type_error

filterVars == <<catalog, dest, pc, arg_data, data, best_identifier,
                identifier_used, key_columns, start_idx, exists_flags, exists_in_db, result, queryLog,
                catalogLog, run, inserted, faults>>
dedupVars == <<batch, subset, keep, deduplicated>>
enhancedVars == <<enhanced_call, enhanced_result, caught, stage_log, insert_log>>
mapperVars == <<excel_columns, sql_columns, table_structure, fuzz, mappings>>
typeVars == <<column, column_type, db_columns, fuzzy_mappings>>
validatorVars == <<df, column_mappings, table_constraints, validation,
                   cell_value, cell_expected_type, cell_type_error>>
vars == <<filterVars, dedupVars, enhancedVars, mapperVars, typeVars, validatorVars>>

(***************************************************************************)
(* Generic helpers                                                         *)
(***************************************************************************)
Min(x, y) == IF x <= y THEN x ELSE y

Max(x, y) == IF x >= y THEN x ELSE y

Range(s) == {s[i] : i \in 1..Len(s)}

SeqsUpTo(S, n) == UNION {[1..k -> S] : k \in 0..n}

RECURSIVE SumSeq(_)
SumSeq(s) == IF s = <<>> THEN 0 ELSE Head(s) + SumSeq(Tail(s))

(***************************************************************************)
(* Bounds of the model                                                     *)
(***************************************************************************)
\* longest batch handed to filter_duplicates
MaxRows == 4

\* number of queries (catalog or existence) that may raise in one behaviour
MaxFaults == 1

(***************************************************************************)
(* DataFrames: a set of column names and a sequence of rows, each row      *)
(* carrying its index label (pandas keeps the labels through head() and    *)
(* boolean selection).                                                     *)
(***************************************************************************)
Null == "NULL"

isna(v) == v = Null

TableCols == {"a", "b"}

ColDomain(c) == IF c = "a" THEN {"k1", Null} ELSE {"k1", "k2"}

RowsOver(cols) == {r \in [cols -> {"k1", "k2", Null}] : \A c \in cols : r[c] \in ColDomain(c)}

Frames(cols) ==
    {[columns |-> cols, rows |-> [i \in 1..Len(f) |-> [idx |-> i - 1, vals |-> f[i]]]] :
        f \in SeqsUpTo(RowsOver(cols), MaxRows)}

InputFrames == Frames({"a", "b"}) \cup Frames({"a"})

len(frame) == Len(frame.rows)

head(frame, n) == [frame EXCEPT !.rows = SubSeq(frame.rows, 1, Min(n, Len(frame.rows)))]

(***************************************************************************)
(* Destination catalog.  A table is described by what the three catalog    *)
(* queries answer: the primary-key columns, the unique constraints and the *)
(* unique indexes (SQL Server backs every unique constraint by a unique    *)
(* index of the same name), each in the order of the query's ORDER BY.     *)
(***************************************************************************)
Table(pk, uniques, indexes) == [pk |-> pk, uniques |-> uniques, indexes |-> indexes]

UQ(n, cols) == [constraint_name |-> n, columns |-> cols]

IX(n, cols) == [index_name |-> n, columns |-> cols]

Tables ==
    { Table(<<>>, <<>>, <<>>),
      Table(<<"a">>, <<>>, <<>>),
      Table(<<"a", "b">>, <<>>, <<>>),
      Table(<<>>, <<UQ("UQ_1", <<"b">>), UQ("UQ_2", <<"a">>)>>,
                  <<IX("UQ_1", <<"b">>), IX("UQ_2", <<"a">>)>>),
      Table(<<>>, <<>>, <<IX("IX_1", <<"a">>), IX("IX_2", <<"a", "b">>)>>),
      Table(<<"a">>, <<UQ("UQ_1", <<"a", "b">>)>>,
                     <<IX("IX_0", <<"b">>), IX("UQ_1", <<"a", "b">>)>>) }

\* which of the three catalog queries of one resolution raise
NoRaise == [pk |-> FALSE, uq |-> FALSE, ix |-> FALSE]

Raises == [pk : BOOLEAN, uq : BOOLEAN, ix : BOOLEAN]

RaiseCount(f) == (IF f.pk THEN 1 ELSE 0) + (IF f.uq THEN 1 ELSE 0) + (IF f.ix THEN 1 ELSE 0)

(***************************************************************************)
(* DatabaseMetadataUtils: catalog readers and identifier resolution        *)
(***************************************************************************)
get_table_primary_keys(cat, raises) == IF raises THEN <<>> ELSE cat.pk

get_table_unique_constraints(cat, raises) == IF raises THEN <<>> ELSE cat.uniques

get_table_unique_indexes(cat, raises) == IF raises THEN <<>> ELSE cat.indexes

Identifier(t, n, cols, prio) == [type |-> t, name |-> n, columns |-> cols, priority |-> prio]

\* list.sort(key=priority): a stable sort on a key in 1..3
SortByPriority(ids) ==
    SelectSeq(ids, LAMBDA i : i.priority = 1) \o
    SelectSeq(ids, LAMBDA i : i.priority = 2) \o
    SelectSeq(ids, LAMBDA i : i.priority = 3)

get_all_unique_identifiers(cat, f) ==
    LET primary_keys == get_table_primary_keys(cat, f.pk)
        unique_constraints == get_table_unique_constraints(cat, f.uq)
        unique_indexes == get_table_unique_indexes(cat, f.ix)
        ids1 == IF primary_keys # <<>>
                THEN <<Identifier("PRIMARY_KEY", "PRIMARY_KEY", primary_keys, 1)>>
                ELSE <<>>
        ids2 == [i \in 1..Len(unique_constraints) |->
                    Identifier("UNIQUE_CONSTRAINT", unique_constraints[i].constraint_name,
                               unique_constraints[i].columns, 2)]
        ids3 == [i \in 1..Len(unique_indexes) |->
                    Identifier("UNIQUE_INDEX", unique_indexes[i].index_name,
                               unique_indexes[i].columns, 3)]
    IN  SortByPriority(ids1 \o ids2 \o ids3)

\* Optional identifier: <<>> is None, <<id>> is the identifier
get_best_unique_identifier(cat, f) ==
    LET unique_identifiers == get_all_unique_identifiers(cat, f)
    IN  IF unique_identifiers = <<>> THEN <<>> ELSE <<unique_identifiers[1]>>

(***************************************************************************)
(* The destination table: rows over TableCols.  The existence query of     *)
(* _check_batch_existence counts the rows matching the WHERE clause built  *)
(* from the key columns ([col] IS NULL for a null key value, [col] = ?     *)
(* otherwise).                                                             *)
(***************************************************************************)
DestRows == RowsOver(TableCols)

\* variant: a null key value compared with = (never true in SQL)
Matches_NullByEquality(stored, vals, keys) ==
    \A i \in 1..Len(keys) :
        ~isna(vals[keys[i]]) /\ stored[keys[i]] = vals[keys[i]]

Matches(stored, vals, keys) ==
    \A i \in 1..Len(keys) :
        IF isna(vals[keys[i]]) THEN isna(stored[keys[i]])
        ELSE stored[keys[i]] = vals[keys[i]]

record_count(d, vals, keys) == Cardinality({stored \in d : Matches(stored, vals, keys)})

\* keys the table enforces: two stored rows never agree on all columns of one
SameKey(r1, r2, cols) == \A i \in 1..Len(cols) : r1[cols[i]] = r2[cols[i]]

AllKeys(cat) ==
    (IF cat.pk = <<>> THEN {} ELSE {cat.pk})
        \cup {cat.uniques[i].columns : i \in 1..Len(cat.uniques)}
        \cup {cat.indexes[i].columns : i \in 1..Len(cat.indexes)}

Consistent(cat, d) ==
    /\ \A r1, r2 \in d : \A k \in AllKeys(cat) : SameKey(r1, r2, k) => r1 = r2
    /\ \A r \in d : \A i \in 1..Len(cat.pk) : ~isna(r[cat.pk[i]])

\* the row an INSERT of the frame's columns stores (other columns are NULL)
Stored(vals) == [c \in TableCols |-> IF c \in DOMAIN vals THEN vals[c] ELSE Null]

\* execute_non_query(INSERT): raises on a key violation, and the row is skipped
Accepts(cat, d, vals) == Consistent(cat, d \cup {Stored(vals)})

RECURSIVE InsertRows(_, _, _)
InsertRows(cat, d, rows) ==
    IF rows = <<>> THEN d
    ELSE InsertRows(cat,
                    IF Accepts(cat, d, Head(rows).vals) THEN d \cup {Stored(Head(rows).vals)} ELSE d,
                    Tail(rows))

\* TRUE iff no INSERT of the rows raised
RECURSIVE AllAccepted(_, _, _)
AllAccepted(cat, d, rows) ==
    IF rows = <<>> THEN TRUE
    ELSE /\ Accepts(cat, d, Head(rows).vals)
         /\ AllAccepted(cat, d \cup {Stored(Head(rows).vals)}, Tail(rows))

(***************************************************************************)
(* DuplicateFilter and DatabaseMetadataUtils.filter_new_records            *)
(***************************************************************************)
\* DuplicateFilter.__init__, scaled down from 10000 so that a batch can exceed it
max_records_for_filtering == 3

\* check_records_exist, scaled down from 100 so that a batch spans several batches
batch_size == 2

Msg(kind, cols) == [kind |-> kind, columns |-> cols]

\* identifier_info of a result: {}, {'warning': ..}, an identifier or None
Info(kind, ident) == [kind |-> kind, identifier |-> ident]

DuplicateFilterResult(success, original_count, new_records_count, duplicate_count, filtered_data, identifier_info, errors, warnings) ==
    [success |-> success, original_count |-> original_count,
     new_records_count |-> new_records_count, duplicate_count |-> duplicate_count,
     filtered_data |-> filtered_data, identifier_info |-> identifier_info,
     errors |-> errors, warnings |-> warnings]

\* data.head(max_records_for_filtering) when the batch is too long
truncate(d) ==
    IF len(d) > max_records_for_filtering THEN head(d, max_records_for_filtering) ELSE d

\* [col for col in key_columns if col not in data.columns]
missing_columns(keys, d) == SelectSeq(keys, LAMBDA col : col \notin d.columns)

\* the three early results of filter_duplicates
EmptyResult(d) ==
    DuplicateFilterResult(TRUE, 0, 0, 0, <<d>>, Info("empty", <<>>), <<>>,
                          <<Msg("empty_dataframe", <<>>)>>)

\* variant: the absence of an identifier reported as a failure
NoIdentifierResult_AsError(d) ==
    DuplicateFilterResult(FALSE, len(d), 0, 0, <<>>, Info("warning", <<>>),
                          <<Msg("no_unique_identifier", <<>>)>>, <<>>)

NoIdentifierResult(d) ==
    DuplicateFilterResult(TRUE, len(d), len(d), 0, <<d>>, Info("warning", <<>>), <<>>,
                          <<Msg("no_unique_identifier", <<>>)>>)

\* variant: deduplication silently skipped when a key column is missing
MissingColumnsResult_Skip(d, best, missing) ==
    DuplicateFilterResult(TRUE, len(d), len(d), 0, <<d>>, Info("identifier", best), <<>>,
                          <<Msg("missing_key_columns", missing)>>)

MissingColumnsResult(d, best, missing) ==
    DuplicateFilterResult(FALSE, len(d), 0, 0, <<>>, Info("identifier", best),
                          <<Msg("missing_key_columns", missing)>>, <<>>)

\* variant: a query that raises marks the row as existing
record_exists_FailClosed(d, vals, keys, raised) ==
    IF raised THEN TRUE ELSE record_count(d, vals, keys) > 0

\* one existence query: results[0]['record_count'] > 0, False when it raises
record_exists(d, vals, keys, raised) ==
    IF raised THEN FALSE ELSE record_count(d, vals, keys) > 0

\* variant: the connection left open when the query raises
execute_query_LeakOnError(raised, at_connect) ==
    IF raised /\ at_connect THEN <<"connect_raised">>
    ELSE IF raised THEN <<"connect", "execute_raised">>
    ELSE <<"connect", "execute", "fetchall", "close">>

\* what one call of execute_query does with its connection (connection.py
\* lines 107-155): get_connection closes the connection it opened in its
\* finally clause, after a rollback when the body raised
execute_query(raised, at_connect) ==
    IF raised /\ at_connect THEN <<"connect_raised">>
    ELSE IF raised THEN <<"connect", "execute_raised", "rollback", "close">>
    ELSE <<"connect", "execute", "fetchall", "close">>

\* range(0, total_records, batch_size): end of the batch starting at start
batch_end(start, total) == Min(start + batch_size, total)

\* variant: every batch's flags stored at the start of the column
assign_flags_AtStart(col, start, flags) ==
    [i \in 1..Len(col) |-> IF i <= Len(flags) THEN flags[i] ELSE col[i]]

\* result_df.iloc[start:end, exists_in_db] = flags
assign_flags(col, start, flags) ==
    [i \in 1..Len(col) |->
        IF i > start /\ i <= start + Len(flags) THEN flags[i - start] ELSE col[i]]

\* records_with_existence[~records_with_existence['exists_in_db']]
RECURSIVE select_new(_, _)
select_new(rows, flags) ==
    IF rows = <<>> \/ flags = <<>> THEN <<>>
    ELSE (IF ~Head(flags) THEN <<Head(rows)>> ELSE <<>>) \o select_new(Tail(rows), Tail(flags))

new_records(d, flags) == [d EXCEPT !.rows = select_new(d.rows, flags)]

stats_identifier(id) == [type |-> id.type, name |-> id.name, columns |-> id.columns]

\* variant: every row of the batch counted as new
FilteredResult_AllCountedNew(d, flags, used) ==
    DuplicateFilterResult(TRUE, len(d), len(d), 0, <<new_records(d, flags)>>,
                          Info("identifier_used", <<stats_identifier(used)>>), <<>>, <<>>)

\* filter_new_records' statistics turned into the result of filter_duplicates
FilteredResult(d, flags, used) ==
    LET nr == new_records(d, flags)
        total_records == len(d)
        new_count == len(nr)
        existing_count == total_records - new_count
    IN  DuplicateFilterResult(TRUE, total_records, new_count, existing_count, <<nr>>,
                              Info("identifier_used", <<stats_identifier(used)>>),
                              <<>>, <<>>)

\* filter_new_records found no identifier: all rows, with the 'warning' statistic
UnfilteredResult(d) ==
    DuplicateFilterResult(TRUE, len(d), len(d), 0, <<d>>, Info("none", <<>>), <<>>,
                          <<Msg("no_identifier_not_checked", <<>>)>>)

(***************************************************************************)
(* Initial values of each component's variables                            *)
(***************************************************************************)
FilterIdle ==
    /\ pc = "idle"
    /\ arg_data = <<>>
    /\ data = <<>>
    /\ best_identifier = <<>>
    /\ identifier_used = <<>>
    /\ key_columns = <<>>
    /\ start_idx = 0
    /\ exists_flags = <<>>
    /\ exists_in_db = <<>>
    /\ result = <<>>
    /\ queryLog = <<>>
    /\ run = 0
    /\ inserted = FALSE
    /\ faults = 0
    /\ catalogLog = <<>>

DedupIdle ==
    /\ batch = <<>>
    /\ subset = <<>>
    /\ keep = "first"
    /\ deduplicated = <<>>

EnhancedIdle ==
    /\ enhanced_call = <<>>
    /\ enhanced_result = <<>>
    /\ caught = {}
    /\ stage_log = <<>>
    /\ insert_log = <<>>

MapperIdle ==
    /\ excel_columns = <<>>
    /\ sql_columns = <<>>
    /\ table_structure = {}
    /\ fuzz = <<>>
    /\ mappings = <<>>

TypesIdle ==
    /\ column = <<>>
    /\ column_type = "none"
    /\ db_columns = <<>>
    /\ fuzzy_mappings = <<>>

CellTypeIdle ==
    /\ cell_value = <<>>
    /\ cell_expected_type = "STRING"
    /\ cell_type_error = <<>>

ValidatorIdle ==
    /\ df = <<>>
    /\ column_mappings = <<>>
    /\ table_constraints = <<>>
    /\ validation = <<>>
    /\ CellTypeIdle

(***************************************************************************)
(* SpecFilter: filter_duplicates, the insert of the rows it returned as    *)
(* new (MainInterface._process_file) and a second filter_duplicates on     *)
(* those rows.                                                             *)
(***************************************************************************)
InitFilter ==
    /\ catalog \in Tables
    /\ dest \in {d \in SUBSET DestRows : Cardinality(d) <= 1 /\ Consistent(catalog, d)}
    /\ FilterIdle /\ DedupIdle /\ EnhancedIdle
    /\ MapperIdle /\ TypesIdle /\ ValidatorIdle

\* filter_duplicates up to the call of filter_new_records (lines 66-127)
filter_duplicates_body(d, f) ==
    LET td == truncate(d)
        best == get_best_unique_identifier(catalog, f)
        missing == IF best = <<>> THEN <<>> ELSE missing_columns(best[1].columns, td)
    IN  /\ faults + RaiseCount(f) <= MaxFaults
        /\ arg_data' = <<d>>
        /\ run' = run + 1
        /\ queryLog' = <<>>
        /\ identifier_used' = <<>>
        /\ key_columns' = <<>>
        /\ start_idx' = 0
        /\ exists_flags' = <<>>
        /\ exists_in_db' = <<>>
        /\ UNCHANGED <<catalog, dest>>
        /\ IF len(d) = 0
           THEN /\ f = NoRaise
                /\ data' = <<d>>
                /\ best_identifier' = <<>>
                /\ result' = <<EmptyResult(d)>>
                /\ pc' = "done"
                /\ faults' = faults
                /\ catalogLog' = <<>>
           ELSE /\ data' = <<td>>
                /\ best_identifier' = best
                /\ faults' = faults + RaiseCount(f)
                /\ catalogLog' = <<f>>
                /\ IF best = <<>>
                   THEN result' = <<NoIdentifierResult(td)>> /\ pc' = "done"
                   ELSE IF missing # <<>>
                   THEN result' = <<MissingColumnsResult(td, best, missing)>> /\ pc' = "done"
                   ELSE result' = <<>> /\ pc' = "filter_new_records"

filter_duplicates ==
    /\ pc = "idle"
    /\ \E d \in InputFrames, f \in Raises : filter_duplicates_body(d, f)
    /\ inserted' = FALSE
    /\ UNCHANGED <<dedupVars, enhancedVars, mapperVars, typeVars, validatorVars>>

\* filter_new_records up to the first batch (lines 371-390) and the entry of
\* check_records_exist (lines 261-281)
filter_new_records ==
    /\ pc = "filter_new_records"
    /\ \E f \in Raises :
        LET best == get_best_unique_identifier(catalog, f)
            d == data[1]
        IN  /\ faults + RaiseCount(f) <= MaxFaults
            /\ faults' = faults + RaiseCount(f)
            /\ catalogLog' = Append(catalogLog, f)
            /\ identifier_used' = best
            /\ IF best = <<>>
               THEN /\ result' = <<UnfilteredResult(d)>>
                    /\ pc' = "done"
                    /\ UNCHANGED <<key_columns, exists_in_db>>
               ELSE /\ key_columns' = best[1].columns
                    /\ exists_in_db' = [i \in 1..len(d) |-> FALSE]
                    /\ result' = <<>>
                    /\ pc' = IF missing_columns(best[1].columns, d) # <<>> \/ len(d) = 0
                             THEN "return" ELSE "check"
    /\ UNCHANGED <<catalog, dest, arg_data, data, best_identifier, start_idx,
                   exists_flags, queryLog, run, inserted>>
    /\ UNCHANGED <<dedupVars, enhancedVars, mapperVars, typeVars, validatorVars>>

\* one iteration of the row loop of _check_batch_existence (lines 321-350); the
\* last row of a batch also stores the batch's flags (line 292)
check_row ==
    /\ pc = "check"
    /\ \E raised \in BOOLEAN, at_connect \in BOOLEAN :
        LET d == data[1]
            pos == start_idx + Len(exists_flags) + 1
            end_idx == batch_end(start_idx, len(d))
            row == d.rows[pos]
            flag == record_exists(dest, row.vals, key_columns, raised)
            flags == Append(exists_flags, flag)
            outcome == IF raised THEN "raised"
                       ELSE IF record_count(dest, row.vals, key_columns) > 0 THEN "found"
                       ELSE "absent"
        IN  /\ raised => faults < MaxFaults
            /\ at_connect => raised
            /\ faults' = IF raised THEN faults + 1 ELSE faults
            /\ queryLog' = Append(queryLog, [idx |-> row.idx, keys |-> key_columns,
                                            outcome |-> outcome,
                                            connection |-> execute_query(raised, at_connect)])
            /\ IF pos >= end_idx
               THEN /\ exists_in_db' = assign_flags(exists_in_db, start_idx, flags)
                    /\ exists_flags' = <<>>
                    /\ start_idx' = start_idx + batch_size
                    /\ pc' = IF start_idx + batch_size < len(d) THEN "check" ELSE "return"
               ELSE /\ exists_flags' = flags
                    /\ UNCHANGED <<exists_in_db, start_idx, pc>>
    /\ UNCHANGED <<catalog, dest, arg_data, data, best_identifier, identifier_used,
                   key_columns, result, catalogLog, run, inserted>>
    /\ UNCHANGED <<dedupVars, enhancedVars, mapperVars, typeVars, validatorVars>>

\* the end of filter_new_records (lines 392-418) and of filter_duplicates
\* (lines 134-160)
filter_return ==
    /\ pc = "return"
    /\ result' = <<FilteredResult(data[1], exists_in_db, identifier_used[1])>>
    /\ pc' = "done"
    /\ UNCHANGED <<catalog, dest, arg_data, data, best_identifier, identifier_used,
                   key_columns, start_idx, exists_flags, exists_in_db, queryLog,
                   catalogLog, run, inserted, faults>>
    /\ UNCHANGED <<dedupVars, enhancedVars, mapperVars, typeVars, validatorVars>>

\* MainInterface._process_file: INSERT of every row returned as new; a row
\* whose INSERT raises is skipped (lines 1083-1107)
insert_new_records ==
    /\ pc = "done"
    /\ run = 1
    /\ result[1].success
    /\ LET rows == result[1].filtered_data[1].rows
       IN  /\ dest' = InsertRows(catalog, dest, rows)
           /\ inserted' = AllAccepted(catalog, dest, rows)
    /\ pc' = "inserted"
    /\ UNCHANGED <<catalog, arg_data, data, best_identifier, identifier_used,
                   key_columns, start_idx, exists_flags, exists_in_db, result,
                   queryLog, catalogLog, run, faults>>
    /\ UNCHANGED <<dedupVars, enhancedVars, mapperVars, typeVars, validatorVars>>

\* filter_duplicates run again on exactly the rows the first run returned
filter_duplicates_again ==
    /\ pc = "inserted"
    /\ \E f \in Raises : filter_duplicates_body(result[1].filtered_data[1], f)
    /\ UNCHANGED inserted
    /\ UNCHANGED <<dedupVars, enhancedVars, mapperVars, typeVars, validatorVars>>

NextFilter ==
    \/ filter_duplicates
    \/ filter_new_records
    \/ check_row
    \/ filter_return
    \/ insert_new_records
    \/ filter_duplicates_again

SpecFilter == InitFilter /\ [][NextFilter]_vars

(***************************************************************************)
(* Properties of the duplicate filter                                      *)
(***************************************************************************)
Returned == pc = "done" /\ result # <<>>

Res == result[1]

\* index labels of the rows whose existence query returned a count > 0
FoundIdx == {queryLog[i].idx : i \in {j \in 1..Len(queryLog) : queryLog[j].outcome = "found"}}

RaisedIdx == {queryLog[i].idx : i \in {j \in 1..Len(queryLog) : queryLog[j].outcome = "raised"}}

\* C2: when filter_new_records resolved an identifier, the rows returned as new
\* are exactly the rows of the batch whose existence query did not return a
\* count > 0, in their original order (also across several batches)
C2_NewAreTheRowsNotFound ==
    (Returned /\ identifier_used # <<>>) =>
        /\ Res.filtered_data # <<>>
        /\ Res.filtered_data[1].rows =
               SelectSeq(data[1].rows, LAMBDA r : r.idx \notin FoundIdx)

C2_Witness ==
    /\ Returned /\ identifier_used # <<>>
    /\ len(data[1]) > batch_size
    /\ Len(queryLog) = len(data[1])
    /\ queryLog[1].outcome = "absent"
    /\ queryLog[2].outcome = "found"
    /\ queryLog[batch_size + 1].outcome = "found"
    /\ Res.new_records_count = len(data[1]) - 2

\* C3: when the identifier resolved by filter_duplicates has a key column that
\* the batch lacks, the result is a failure whose error names the missing
\* columns, filtered_data is None, no existence query was issued and no row is
\* reported new
C3_MissingKeyColumnFails ==
    (Returned /\ best_identifier # <<>> /\
     ~(Range(best_identifier[1].columns) \subseteq data[1].columns)) =>
        /\ ~Res.success
        /\ Res.filtered_data = <<>>
        /\ Res.new_records_count = 0
        /\ Len(Res.errors) = 1
        /\ Res.errors[1].kind = "missing_key_columns"
        /\ Range(Res.errors[1].columns) = Range(best_identifier[1].columns) \ data[1].columns
        /\ queryLog = <<>>

C3_Witness ==
    /\ Returned /\ best_identifier # <<>>
    /\ best_identifier[1].columns = <<"a", "b">>
    /\ data[1].columns = {"a"}
    /\ len(data[1]) > 1

NoIdentifiers(cat) == cat.pk = <<>> /\ cat.uniques = <<>> /\ cat.indexes = <<>>

\* C4 as stated: for a table without primary key, unique constraint and unique
\* index the result is a success without errors, with a warning, no duplicates
\* and filtered_data holding every row that was passed in, whatever the size
C4_AllRowsReturned ==
    (Returned /\ NoIdentifiers(catalog)) =>
        /\ best_identifier = <<>>
        /\ Res.success /\ Res.errors = <<>> /\ Res.warnings # <<>>
        /\ Res.duplicate_count = 0
        /\ Res.filtered_data = arg_data

\* C4 amended: ... filtered_data holds the first max_records_for_filtering rows
\* that were passed in (all of them when the batch is not longer than that)
C4_AllRowsUpToLimitReturned ==
    (Returned /\ NoIdentifiers(catalog)) =>
        /\ best_identifier = <<>>
        /\ Res.success /\ Res.errors = <<>> /\ Res.warnings # <<>>
        /\ Res.duplicate_count = 0
        /\ Res.filtered_data # <<>>
        /\ Res.filtered_data[1].columns = arg_data[1].columns
        /\ Res.filtered_data[1].rows =
               SubSeq(arg_data[1].rows, 1, Min(len(arg_data[1]), max_records_for_filtering))
        /\ Res.new_records_count = Min(len(arg_data[1]), max_records_for_filtering)

C4_Witness ==
    /\ Returned /\ NoIdentifiers(catalog)
    /\ len(arg_data[1]) > max_records_for_filtering
    /\ Res.success
    /\ len(Res.filtered_data[1]) = max_records_for_filtering

\* the identifier the table's constraints call for
ExpectedIdentifier(cat) ==
    IF cat.pk # <<>> THEN <<Identifier("PRIMARY_KEY", "PRIMARY_KEY", cat.pk, 1)>>
    ELSE IF cat.uniques # <<>>
    THEN <<Identifier("UNIQUE_CONSTRAINT", cat.uniques[1].constraint_name,
                      cat.uniques[1].columns, 2)>>
    ELSE IF cat.indexes # <<>>
    THEN <<Identifier("UNIQUE_INDEX", cat.indexes[1].index_name, cat.indexes[1].columns, 3)>>
    ELSE <<>>

Resolved == run > 0 /\ len(arg_data[1]) > 0

\* C5: get_best_unique_identifier returns the primary key when the table has
\* one, else the first unique constraint, else the first unique index, and None
\* only when the table has none of the three
C5_BestIdentifierByPriority ==
    Resolved => best_identifier = ExpectedIdentifier(catalog)

\* C6: when the existence query of a row raised, every row of the batch was
\* checked by its own query, in order; the rows whose query raised are in the
\* new partition and every other row is classified by its own query's result
C6_RaisedRowKeptOthersChecked ==
    (Returned /\ RaisedIdx # {}) =>
        /\ Len(queryLog) = len(data[1])
        /\ \A i \in 1..Len(queryLog) : queryLog[i].idx = data[1].rows[i].idx
        /\ Res.filtered_data # <<>>
        /\ LET newIdx == {Res.filtered_data[1].rows[i].idx : i \in 1..len(Res.filtered_data[1])}
           IN  /\ RaisedIdx \subseteq newIdx
               /\ \A i \in 1..Len(queryLog) :
                     queryLog[i].outcome # "raised" =>
                        (queryLog[i].idx \in newIdx <=> queryLog[i].outcome = "absent")

C6_Witness ==
    /\ Returned /\ Len(queryLog) > batch_size
    /\ queryLog[1].outcome = "raised"
    /\ queryLog[2].outcome = "found"
    /\ queryLog[batch_size + 1].outcome = "found"
    /\ Res.new_records_count = len(data[1]) - 2

\* C7 as stated: after the rows returned as new were all inserted, a second
\* filter_duplicates on exactly those rows reports new_records_count = 0, for
\* any batch and destination
C7_SecondRunFindsNothingNew ==
    (Returned /\ run = 2 /\ inserted) => Res.new_records_count = 0

\* C7 amended: ... reports new_records_count = 0 whenever the second run issued
\* an existence query for each of its rows and none of them raised
C7_SecondRunFindsNothingNewWhenChecked ==
    (Returned /\ run = 2 /\ inserted /\ Len(queryLog) = len(data[1]) /\ RaisedIdx = {}) =>
        Res.new_records_count = 0

C7_Witness ==
    /\ Returned /\ run = 2 /\ inserted
    /\ len(data[1]) > 1
    /\ Len(queryLog) = len(data[1]) /\ RaisedIdx = {}
    /\ Res.success /\ Res.duplicate_count = len(data[1])

\* C8: a batch longer than max_records_for_filtering is cut to its first
\* max_records_for_filtering rows, and the result's warnings name the truncation
C8_TruncationWarned ==
    (Returned /\ len(arg_data[1]) > max_records_for_filtering) =>
        /\ data[1] = head(arg_data[1], max_records_for_filtering)
        /\ Res.original_count = max_records_for_filtering
        /\ \E i \in 1..Len(Res.warnings) : Res.warnings[i].kind = "truncated"

\* a catalog query of an identifier resolution of this call raised
CatalogRaised == \E k \in 1..Len(catalogLog) : catalogLog[k] # NoRaise

\* C12: when a catalog query needed to resolve the identifier raised,
\* filter_duplicates returns success=False with the exception in errors
C12_CatalogErrorFails ==
    (Returned /\ CatalogRaised) => (~Res.success /\ Res.errors # <<>>)

\* C25: when filter_duplicates went on to filter_new_records, the identifier
\* whose key columns it checked in the batch is the one the existence queries
\* were built from and the one reported in identifier_info
C25_IdentifierResolvedOnce ==
    (Returned /\ Len(catalogLog) = 2) =>
        /\ identifier_used = best_identifier
        /\ Res.identifier_info = Info("identifier_used", <<stats_identifier(best_identifier[1])>>)

\* the connections of the existence queries issued so far are all closed
ConnectionsClosed ==
    \A i \in 1..Len(queryLog) :
        LET events == queryLog[i].connection
        IN  /\ Cardinality({k \in 1..Len(events) : events[k] \in {"connect", "connect_raised"}}) = 1
            /\ events[1] = "connect" => events[Len(events)] = "close"
            /\ Cardinality({k \in 1..Len(events) : events[k] \in {"execute", "execute_raised"}}) <= 1

\* C27: the existence queries are issued in row order, each on a connection of
\* its own that is closed when the query ends, and a batch filtered with an
\* identifier got exactly one query per row
C27_OneQueryPerRowOwnConnection ==
    /\ Len(queryLog) <= IF data = <<>> THEN 0 ELSE len(data[1])
    /\ \A i \in 1..Len(queryLog) : queryLog[i].idx = data[1].rows[i].idx
    /\ ConnectionsClosed
    /\ (Returned /\ identifier_used # <<>>) => Len(queryLog) = len(data[1])

\* the same for the calls whose two identifier lookups agreed
C27_OneQueryPerRowSameIdentifier ==
    /\ Len(queryLog) <= IF data = <<>> THEN 0 ELSE len(data[1])
    /\ \A i \in 1..Len(queryLog) : queryLog[i].idx = data[1].rows[i].idx
    /\ ConnectionsClosed
    /\ (Returned /\ identifier_used # <<>> /\ identifier_used = best_identifier)
           => Len(queryLog) = len(data[1])

\* C28: a result of filter_duplicates with success = True has original_count =
\* new_records_count + duplicate_count, and new_records_count is the number of
\* rows of filtered_data (empty batch, no identifier, normal filtering)
C28_CountsAddUp ==
    (Returned /\ Res.success) =>
        /\ Res.original_count = Res.new_records_count + Res.duplicate_count
        /\ Res.filtered_data # <<>>
        /\ Res.new_records_count = len(Res.filtered_data[1])

\* a truncated batch filtered over two batches of queries, some rows found
C28_Witness ==
    /\ Returned /\ Res.success
    /\ identifier_used # <<>>
    /\ len(arg_data[1]) > max_records_for_filtering
    /\ Res.duplicate_count > 0
    /\ Res.new_records_count > 0

(***************************************************************************)
(* TableMapper: fuzzy mapping of spreadsheet columns to table columns.     *)
(* A column name is a sequence of one-character strings.  The four         *)
(* fuzzywuzzy scores of a pair of normalized names are an input of the     *)
(* call (the table fuzz); the library returns 0 when either string is      *)
(* empty and 100 for two equal non-empty strings.  Scores and confidences  *)
(* are kept in tenths of a point (700 is the score 70.0, confidence 0.70). *)
(***************************************************************************)
\* longest list of spreadsheet columns
MaxExcel == 3

\* longest list of table columns
MaxSql == 3

UpperChars == <<"A", "B", "C", "D", "E", "F", "G", "H", "I", "J", "K", "L", "M", "N", "O", "P", "Q", "R", "S", "T", "U", "V", "W", "X", "Y", "Z">>

LowerChars == <<"a", "b", "c", "d", "e", "f", "g", "h", "i", "j", "k", "l", "m", "n", "o", "p", "q", "r", "s", "t", "u", "v", "w", "x", "y", "z">>

AlnumChars == {"a", "b", "c", "d", "e", "f", "g", "h", "i", "j", "k", "l", "m", "n", "o", "p", "q", "r", "s", "t", "u", "v", "w", "x", "y", "z", "0", "1", "2", "3", "4", "5", "6", "7", "8", "9"}

lower_char(c) ==
    IF \E i \in 1..Len(UpperChars) : UpperChars[i] = c
    THEN LowerChars[CHOOSE i \in 1..Len(UpperChars) : UpperChars[i] = c]
    ELSE c

lower(s) == [i \in 1..Len(s) |-> lower_char(s[i])]

upper_char(c) ==
    IF \E i \in 1..Len(LowerChars) : LowerChars[i] = c
    THEN UpperChars[CHOOSE i \in 1..Len(LowerChars) : LowerChars[i] = c]
    ELSE c

upper(s) == [i \in 1..Len(s) |-> upper_char(s[i])]

startswith(s, p) == Len(s) >= Len(p) /\ SubSeq(s, 1, Len(p)) = p

endswith(s, p) == Len(s) >= Len(p) /\ SubSeq(s, Len(s) - Len(p) + 1, Len(s)) = p

\* Python's `p in s` for strings
contains(s, p) == \E i \in 1..(Len(s) - Len(p) + 1) : SubSeq(s, i, i + Len(p) - 1) = p

prefixes_to_remove == <<<<"t", "b", "l">>, <<"c", "o", "l">>, <<"f", "l", "d">>,
                        <<"f", "i", "e", "l", "d">>>>

suffixes_to_remove == <<<<"i", "d">>, <<"k", "e", "y">>, <<"c", "o", "d", "e">>,
                        <<"n", "u", "m">>, <<"n", "o">>>>

\* lower().strip(), re.sub('[^a-z0-9]', ''), then the first prefix and the first
\* suffix of the lists that can be removed leaving a non-empty name
_normalize_column_name(column_name) ==
    LET n1 == SelectSeq(lower(column_name), LAMBDA c : c \in AlnumChars)
        pre == SelectSeq(prefixes_to_remove, LAMBDA p : startswith(n1, p) /\ Len(n1) > Len(p))
        n2 == IF pre = <<>> THEN n1 ELSE SubSeq(n1, Len(pre[1]) + 1, Len(n1))
        suf == SelectSeq(suffixes_to_remove, LAMBDA p : endswith(n2, p) /\ Len(n2) > Len(p))
    IN  IF suf = <<>> THEN n2 ELSE SubSeq(n2, 1, Len(n2) - Len(suf[1]))

\* TableMapper.__init__: the pattern buckets, in dictionary order
common_patterns ==
    <<
      \* id
      <<<<"i", "d">>,
         <<"i", "d", "e", "n", "t", "i", "f", "i", "e", "r">>,
         <<"k", "e", "y">>,
         <<"c", "o", "d", "i", "g", "o">>,
         <<"c", "o", "d", "e">>>>,
      \* name
      <<<<"n", "a", "m", "e">>,
         <<"n", "o", "m", "b", "r", "e">>,
         <<"t", "i", "t", "l", "e">>,
         <<"t", "i", "t", "u", "l", "o">>,
         <<"d", "e", "s", "c", "r", "i", "p", "c", "i", "o", "n">>,
         <<"d", "e", "s", "c", "r", "i", "p", "t", "i", "o", "n">>>>,
      \* date
      <<<<"d", "a", "t", "e">>,
         <<"f", "e", "c", "h", "a">>,
         <<"t", "i", "m", "e">>,
         <<"t", "i", "e", "m", "p", "o">>,
         <<"c", "r", "e", "a", "t", "e", "d">>,
         <<"u", "p", "d", "a", "t", "e", "d">>,
         <<"m", "o", "d", "i", "f", "i", "e", "d">>>>,
      \* email
      <<<<"e", "m", "a", "i", "l">>,
         <<"c", "o", "r", "r", "e", "o">>,
         <<"m", "a", "i", "l">>>>,
      \* phone
      <<<<"p", "h", "o", "n", "e">>,
         <<"t", "e", "l", "e", "f", "o", "n", "o">>,
         <<"t", "e", "l">>,
         <<"c", "e", "l", "u", "l", "a", "r">>,
         <<"m", "o", "b", "i", "l", "e">>>>,
      \* address
      <<<<"a", "d", "d", "r", "e", "s", "s">>,
         <<"d", "i", "r", "e", "c", "c", "i", "o", "n">>,
         <<"l", "o", "c", "a", "t", "i", "o", "n">>,
         <<"u", "b", "i", "c", "a", "c", "i", "o", "n">>>>,
      \* status
      <<<<"s", "t", "a", "t", "u", "s">>,
         <<"e", "s", "t", "a", "d", "o">>,
         <<"a", "c", "t", "i", "v", "e">>,
         <<"a", "c", "t", "i", "v", "o">>,
         <<"e", "n", "a", "b", "l", "e", "d">>>>,
      \* amount
      <<<<"a", "m", "o", "u", "n", "t">>,
         <<"m", "o", "n", "t", "o">>,
         <<"p", "r", "i", "c", "e">>,
         <<"p", "r", "e", "c", "i", "o">>,
         <<"c", "o", "s", "t">>,
         <<"c", "o", "s", "t", "o">>,
         <<"v", "a", "l", "u", "e">>,
         <<"v", "a", "l", "o", "r">>>>,
      \* quantity
      <<<<"q", "u", "a", "n", "t", "i", "t", "y">>,
         <<"c", "a", "n", "t", "i", "d", "a", "d">>,
         <<"q", "t", "y">>,
         <<"c", "o", "u", "n", "t">>,
         <<"n", "u", "m", "e", "r", "o">>>>
    >>

fuzzy_threshold == 70

high_confidence_threshold == 85

any_pattern_in(patterns, col) == \E i \in 1..Len(patterns) : contains(col, patterns[i])

\* the loop over the buckets: +15 and stop at the first bucket both names
\* match, +5 for every bucket before it that exactly one of them matches
RECURSIVE bucket_bonus(_, _, _)
bucket_bonus(i, excel_col, sql_col) ==
    IF i > Len(common_patterns) THEN 0
    ELSE LET excel_matches == any_pattern_in(common_patterns[i], excel_col)
             sql_matches == any_pattern_in(common_patterns[i], sql_col)
         IN  IF excel_matches /\ sql_matches THEN 15
             ELSE (IF excel_matches \/ sql_matches THEN 5 ELSE 0)
                  + bucket_bonus(i + 1, excel_col, sql_col)

abs(x) == IF x < 0 THEN -x ELSE x

length_bonus(excel_col, sql_col) ==
    LET length_diff == abs(Len(excel_col) - Len(sql_col))
    IN  IF length_diff <= 2 THEN 5 ELSE IF length_diff <= 5 THEN 2 ELSE 0

\* in points (0..20)
_calculate_pattern_bonus(excel_col, sql_col) ==
    Min(20, bucket_bonus(1, excel_col, sql_col) + length_bonus(excel_col, sql_col))

\* variant: the high-confidence class is never given
_determine_match_type_NoExact(score) ==
    IF score >= 10 * fuzzy_threshold THEN "fuzzy_match" ELSE "low_confidence"

_determine_match_type(score) ==
    IF score >= 10 * high_confidence_threshold THEN "exact_match"
    ELSE IF score >= 10 * fuzzy_threshold THEN "fuzzy_match"
    ELSE "low_confidence"

Scores(r, p, ts, tset) == [ratio |-> r, partial_ratio |-> p, token_sort |-> ts, token_set |-> tset]

\* fuzz.ratio, partial_ratio, token_sort_ratio and token_set_ratio of two
\* normalized names, as the library table lib answers them
fuzz_scores(lib, normalized_excel, normalized_sql) ==
    IF normalized_excel = <<>> \/ normalized_sql = <<>> THEN Scores(0, 0, 0, 0)
    ELSE IF normalized_excel = normalized_sql THEN Scores(100, 100, 100, 100)
    ELSE lib[<<normalized_excel, normalized_sql>>]

weighted_score(scores) ==
    3 * scores.ratio + 2 * scores.partial_ratio + 3 * scores.token_sort + 2 * scores.token_set

\* the column names of the sample: spreadsheet headers and table columns
ExcelNames == {<<"e", "m", "a", "i", "l">>,
               <<"E", "-", "m", "a", "i", "l">>,
               <<"N", "a", "m", "e">>,
               <<"#">>}

SqlNames == {<<"e", "m", "a", "i", "l">>,
             <<"n", "a", "m", "e">>,
             <<"e", "m", "a", "i", "l", "_", "i", "d">>,
             <<"#">>}

ColumnNames == ExcelNames \cup SqlNames

\* _normalize_column_name of every name of the sample, computed once
normalized == [name \in ColumnNames |-> _normalize_column_name(name)]

NormalizedNames == {normalized[name] : name \in ColumnNames}

\* _calculate_pattern_bonus of every pair of normalized names, computed once
pattern_bonus == [p \in NormalizedNames \X NormalizedNames |-> _calculate_pattern_bonus(p[1], p[2])]

\* variant: the score without the cap of 100
final_score_Uncapped(lib, excel_col, sql_col) ==
    weighted_score(fuzz_scores(lib, normalized[excel_col], normalized[sql_col]))
        + 10 * pattern_bonus[<<normalized[excel_col], normalized[sql_col]>>]

\* in tenths of a point: min(100, weighted_score + pattern_bonus)
final_score(lib, excel_col, sql_col) ==
    LET normalized_excel == normalized[excel_col]
        normalized_sql == normalized[sql_col]
    IN  Min(1000, weighted_score(fuzz_scores(lib, normalized_excel, normalized_sql))
                  + 10 * pattern_bonus[<<normalized_excel, normalized_sql>>])

\* variant: the columns already used are not filtered out
available_columns_All(sql_cols, used) == sql_cols

\* [col for col in sql_columns if col not in used_columns]
available_columns(sql_cols, used) == SelectSeq(sql_cols, LAMBDA col : col \notin used)

\* variant: the match with the lowest score
best_of_Lowest(matches) ==
    matches[CHOOSE i \in 1..Len(matches) :
                \A j \in 1..Len(matches) : matches[i].score <= matches[j].score]

\* max(matches, key=score): the first of the matches with the highest score
best_of(matches) ==
    matches[CHOOSE i \in 1..Len(matches) :
                /\ \A j \in 1..Len(matches) : matches[j].score <= matches[i].score
                /\ \A j \in 1..(i - 1) : matches[j].score < matches[i].score]

\* Optional mapping: <<>> is None
_find_best_column_match(lib, excel_col, sql_cols, structure, used) ==
    LET available == available_columns(sql_cols, used)
        scored == [i \in 1..Len(available) |->
                      [sql_column |-> available[i],
                       score |-> final_score(lib, excel_col, available[i]),
                       pattern_bonus |->
                           pattern_bonus[<<normalized[excel_col], normalized[available[i]]>>]]]
        matches == SelectSeq(scored, LAMBDA m : m.score >= 10 * fuzzy_threshold)
    IN  IF available = <<>> \/ matches = <<>> THEN <<>>
        ELSE LET best_match == best_of(matches)
             IN  IF best_match.sql_column \notin structure
                 THEN <<>>      \* KeyError in structure_dict, caught: None
                 ELSE <<[excel_column |-> excel_col,
                         sql_column |-> <<best_match.sql_column>>,
                         confidence |-> best_match.score,
                         match_type |-> _determine_match_type(best_match.score),
                         pattern_bonus |-> best_match.pattern_bonus]>>

no_match(excel_col) ==
    [excel_column |-> excel_col, sql_column |-> <<>>, confidence |-> 0,
     match_type |-> "no_match", pattern_bonus |-> 0]

\* the loop over the spreadsheet columns: the mappings in input order
RECURSIVE map_columns(_, _, _, _, _)
map_columns(lib, excel_cols, sql_cols, structure, used) ==
    IF excel_cols = <<>> THEN <<>>
    ELSE LET best_mapping == _find_best_column_match(lib, Head(excel_cols), sql_cols,
                                                     structure, used)
         IN  IF best_mapping # <<>>
             THEN <<best_mapping[1]>> \o
                  map_columns(lib, Tail(excel_cols), sql_cols, structure,
                              used \cup {best_mapping[1].sql_column[1]})
             ELSE <<no_match(Head(excel_cols))>> \o
                  map_columns(lib, Tail(excel_cols), sql_cols, structure, used)

\* mappings.sort(key=confidence, reverse=True): stable, descending
RECURSIVE insert_by_confidence(_, _)
insert_by_confidence(sorted, m) ==
    IF sorted = <<>> THEN <<m>>
    ELSE IF Head(sorted).confidence >= m.confidence
         THEN <<Head(sorted)>> \o insert_by_confidence(Tail(sorted), m)
         ELSE <<m>> \o sorted

RECURSIVE sort_by_confidence(_)
sort_by_confidence(ms) ==
    IF ms = <<>> THEN <<>>
    ELSE insert_by_confidence(sort_by_confidence(SubSeq(ms, 1, Len(ms) - 1)), ms[Len(ms)])

suggest_column_mappings_MatchedOnly(lib, excel_cols, sql_cols, structure) ==
    SelectSeq(sort_by_confidence(map_columns(lib, excel_cols, sql_cols, structure, {})),
              LAMBDA m : m.sql_column # <<>>)

suggest_column_mappings_Unsorted(lib, excel_cols, sql_cols, structure) ==
    map_columns(lib, excel_cols, sql_cols, structure, {})

suggest_column_mappings(lib, excel_cols, sql_cols, structure) ==
    sort_by_confidence(map_columns(lib, excel_cols, sql_cols, structure, {}))

(***************************************************************************)
(* SpecMapper: one call of suggest_column_mappings on lists of column      *)
(* names drawn from a sample, repeated names included.                     *)
(***************************************************************************)
\* the answers of the library for two different non-empty normalized names
FuzzProfiles == {Scores(20, 30, 20, 30), Scores(60, 80, 60, 80), Scores(90, 100, 90, 100)}

FreePairs ==
    {p \in {normalized[e] : e \in ExcelNames} \X {normalized[c] : c \in SqlNames} :
        p[1] # p[2] /\ p[1] # <<>> /\ p[2] # <<>>}

\* the four ratios do not depend on the order of their two arguments
FuzzTables ==
    {lib \in [FreePairs -> FuzzProfiles] :
        \A p \in FreePairs : <<p[2], p[1]>> \in FreePairs => lib[<<p[2], p[1]>>] = lib[p]}

\* the table structure handed in: all the columns of sql_columns (what the
\* caller passes), or all but the first
Structures(sc) == {Range(sc)} \cup (IF sc = <<>> THEN {} ELSE {Range(sc) \ {sc[1]}})

InitMapper ==
    /\ excel_columns \in SeqsUpTo(ExcelNames, MaxExcel)
    /\ sql_columns \in SeqsUpTo(SqlNames, MaxSql)
    /\ table_structure \in Structures(sql_columns)
    /\ fuzz \in FuzzTables
    /\ mappings = <<>>
    /\ catalog = Table(<<>>, <<>>, <<>>) /\ dest = {} /\ FilterIdle /\ DedupIdle /\ EnhancedIdle
    /\ TypesIdle /\ ValidatorIdle

suggest ==
    /\ mappings = <<>>
    /\ mappings' = <<suggest_column_mappings(fuzz, excel_columns, sql_columns,
                                             table_structure)>>
    /\ UNCHANGED <<excel_columns, sql_columns, table_structure, fuzz>>
    /\ UNCHANGED <<filterVars, dedupVars, enhancedVars, typeVars, validatorVars>>

NextMapper == suggest

SpecMapper == InitMapper /\ [][NextMapper]_vars

Mapped == mappings # <<>>

\* C1: in a list returned by suggest_column_mappings no non-null sql_column
\* appears in more than one mapping, repeated input names included
C1_SqlColumnMappedOnce ==
    Mapped =>
        \A i, j \in 1..Len(mappings[1]) :
            (i # j /\ mappings[1][i].sql_column # <<>>) =>
                mappings[1][i].sql_column # mappings[1][j].sql_column

\* the first two spreadsheet columns have the same name and sql_columns repeats
\* a name: two of the three spreadsheet columns get a table column
C1_Witness ==
    /\ Mapped
    /\ Len(excel_columns) = 3 /\ excel_columns[1] = excel_columns[2]
    /\ \E i, j \in 1..Len(sql_columns) : i # j /\ sql_columns[i] = sql_columns[j]
    /\ Cardinality({i \in 1..3 : mappings[1][i].sql_column # <<>>}) = 2
    /\ mappings[1][3].sql_column = <<>>

\* the names that are both a spreadsheet header and a table column
SharedNames == Range(excel_columns) \cap Range(sql_columns)

MappingsOf(e) == SelectSeq(mappings[1], LAMBDA m : m.excel_column = e)

HighConfidenceExact(m) ==
    m.confidence >= 10 * high_confidence_threshold /\ m.match_type = "exact_match"

TakenByAnother(e) ==
    \E k \in 1..Len(mappings[1]) :
        mappings[1][k].excel_column # e /\ mappings[1][k].sql_column = <<e>>

Occurrences(seq, x) == Cardinality({i \in 1..Len(seq) : seq[i] = x})

\* C15: suggest_column_mappings returns one mapping per spreadsheet column: the
\* list is as long as excel_columns and every name is the excel_column of as
\* many mappings as it has positions in excel_columns, matched or not
C15_OneMappingPerExcelColumn ==
    Mapped =>
        /\ Len(mappings[1]) = Len(excel_columns)
        /\ \A e \in ExcelNames :
               Occurrences([k \in 1..Len(mappings[1]) |-> mappings[1][k].excel_column], e)
                   = Occurrences(excel_columns, e)

\* three spreadsheet columns, a repeated name among them, of which one found a
\* table column and another did not
C15_Witness ==
    /\ Mapped
    /\ Len(excel_columns) = 3 /\ Len(mappings[1]) = 3
    /\ \E i, j \in 1..3 : i # j /\ excel_columns[i] = excel_columns[j]
    /\ \E k \in 1..3 : mappings[1][k].sql_column = <<>>
    /\ \E k \in 1..3 : mappings[1][k].sql_column # <<>>

\* the mappings in spreadsheet order, as the loop appended them
InSpreadsheetOrder == map_columns(fuzz, excel_columns, sql_columns, table_structure, {})

WithConfidence(ms, c) == SelectSeq(ms, LAMBDA m : m.confidence = c)

\* C19: the returned list is ordered by non-increasing confidence and the
\* mappings of equal confidence keep the order of their spreadsheet columns
C19_SortedByConfidenceStable ==
    Mapped =>
        LET appended == InSpreadsheetOrder
        IN  /\ \A k \in 1..(Len(mappings[1]) - 1) :
                   mappings[1][k].confidence >= mappings[1][k + 1].confidence
            /\ \A c \in {appended[k].confidence : k \in 1..Len(appended)}
                       \cup {mappings[1][k].confidence : k \in 1..Len(mappings[1])} :
                   WithConfidence(mappings[1], c) = WithConfidence(appended, c)

\* the sort moved a mapping: the first spreadsheet column has a lower confidence
\* than a later one, and two different mappings share a confidence
C19_Witness ==
    /\ Mapped
    /\ Len(mappings[1]) = 3
    /\ InSpreadsheetOrder # mappings[1]
    /\ InSpreadsheetOrder[1].confidence < InSpreadsheetOrder[3].confidence
    /\ \E i, j \in 1..3 :
           /\ i < j
           /\ mappings[1][i].confidence = mappings[1][j].confidence
           /\ mappings[1][i] # mappings[1][j]

\* the greedy assignment of the first n spreadsheet columns, stated on its
\* own: each column takes the first of the top-scoring table columns that no
\* earlier column took, when that score reaches 70
RECURSIVE GreedyAssignments(_)
GreedyAssignments(n) ==
    IF n = 0 THEN <<>>
    ELSE LET earlier == GreedyAssignments(n - 1)
             claimed == {earlier[k][1] : k \in {j \in 1..(n - 1) : earlier[j] # <<>>}}
             free == {i \in 1..Len(sql_columns) : sql_columns[i] \notin claimed}
             score == [i \in free |-> final_score(fuzz, excel_columns[n], sql_columns[i])]
             top == {i \in free : /\ score[i] >= 10 * fuzzy_threshold
                                  /\ \A j \in free : score[j] <= score[i]}
         IN  Append(earlier,
                    IF top = {} THEN <<>>
                    ELSE <<sql_columns[CHOOSE i \in top : \A j \in top : i <= j]>>)

\* the returned mappings pair the names as the greedy assignment does
AssignedGreedily ==
    LET greedy == GreedyAssignments(Len(excel_columns))
    IN  \A e \in Range(excel_columns) :
        \A s \in {<<>>} \cup {<<c>> : c \in Range(sql_columns)} :
            Cardinality({k \in 1..Len(mappings[1]) :
                            mappings[1][k].excel_column = e /\ mappings[1][k].sql_column = s})
                = Cardinality({i \in 1..Len(excel_columns) :
                                  excel_columns[i] = e /\ greedy[i] = s})

Unmatched(m) == m.sql_column = <<>> /\ m.confidence = 0 /\ m.match_type = "no_match"

\* a mapping to a table column: the capped score of the pair as confidence,
\* between 0.70 and 1.0, and the match type of that score
Matched(m) ==
    /\ m.sql_column # <<>>
    /\ m.confidence = Min(1000, weighted_score(fuzz_scores(fuzz, normalized[m.excel_column],
                                                            normalized[m.sql_column[1]]))
                                + 10 * pattern_bonus[<<normalized[m.excel_column],
                                                       normalized[m.sql_column[1]]>>])
    /\ m.confidence >= 700 /\ m.confidence <= 1000
    /\ m.match_type = (IF m.confidence >= 850 THEN "exact_match" ELSE "fuzzy_match")

\* C22: every returned mapping is unmatched (no table column, confidence 0,
\* no_match) or matched (confidence = capped score / 100 within [0.70, 1.0],
\* exact_match from 85 on and fuzzy_match below); low_confidence never occurs
C22_UnmatchedOrMatched ==
    Mapped =>
        \A k \in 1..Len(mappings[1]) :
            /\ Unmatched(mappings[1][k]) \/ Matched(mappings[1][k])
            /\ mappings[1][k].match_type # "low_confidence"

\* one result with a mapping of each kind, the exact one with a capped score
C22_Witness ==
    /\ Mapped
    /\ \E k \in 1..Len(mappings[1]) : mappings[1][k].match_type = "no_match"
    /\ \E k \in 1..Len(mappings[1]) : mappings[1][k].match_type = "fuzzy_match"
    /\ \E k \in 1..Len(mappings[1]) :
           /\ mappings[1][k].match_type = "exact_match"
           /\ mappings[1][k].confidence = 1000
           /\ mappings[1][k].pattern_bonus > 0

\* the buckets a normalized name matches
BucketsOf(col) == {i \in 1..Len(common_patterns) : any_pattern_in(common_patterns[i], col)}

\* the bucket bonuses the rule allows: 15 for a common bucket, 5 when only one
\* of the names matches a bucket, 0 when neither does (two names that match
\* different buckets may count as 5 or as 0)
SpecifiedBucketBonus(excel_col, sql_col) ==
    IF BucketsOf(excel_col) \cap BucketsOf(sql_col) # {} THEN {15}
    ELSE IF BucketsOf(excel_col) = {} /\ BucketsOf(sql_col) = {} THEN {0}
    ELSE IF BucketsOf(excel_col) = {} \/ BucketsOf(sql_col) = {} THEN {5}
    ELSE {0, 5}

SpecifiedLengthBonus(excel_col, sql_col) ==
    IF Len(excel_col) - Len(sql_col) \in -2..2 THEN 5
    ELSE IF Len(excel_col) - Len(sql_col) \in -5..5 THEN 2 ELSE 0

\* C23: the pattern bonus of a matched pair is the bucket bonus (15, 5 or 0)
\* plus the length bonus (5, 2 or 0), capped at 20
C23_PatternBonusAsSpecified ==
    Mapped =>
        \A k \in 1..Len(mappings[1]) :
            mappings[1][k].sql_column # <<>> =>
                LET excel_col == normalized[mappings[1][k].excel_column]
                    sql_col == normalized[mappings[1][k].sql_column[1]]
                IN  mappings[1][k].pattern_bonus \in
                        {Min(20, b + SpecifiedLengthBonus(excel_col, sql_col)) :
                            b \in SpecifiedBucketBonus(excel_col, sql_col)}

(***************************************************************************)
(* ExcelProcessor.detect_column_types                                      *)
(* A cell is <<>> (NaN) or <<s>> with s the text of the cell, a sequence   *)
(* of characters; a column is a sequence of cells.                         *)
(***************************************************************************)
\* longest column handed to detect_column_types
MaxColumn == 4

NaN == <<>>

Digits == {"0", "1", "2", "3", "4", "5", "6", "7", "8", "9"}

Whitespace == {" "}

\* \d+ : a non-empty run of digits
is_digits(s) == s # <<>> /\ \A i \in 1..Len(s) : s[i] \in Digits

\* \d{lo,hi}
digits_of_length(s, lo, hi) == is_digits(s) /\ Len(s) >= lo /\ Len(s) <= hi

RECURSIVE lstrip(_)
lstrip(s) == IF s # <<>> /\ Head(s) \in Whitespace THEN lstrip(Tail(s)) ELSE s

RECURSIVE rstrip(_)
rstrip(s) ==
    IF s # <<>> /\ s[Len(s)] \in Whitespace THEN rstrip(SubSeq(s, 1, Len(s) - 1)) ELSE s

\* str.strip()
strip(s) == rstrip(lstrip(s))

\* the pieces of s between the characters of seps (re.split on one character)
RECURSIVE split(_, _)
split(s, seps) ==
    IF \A i \in 1..Len(s) : s[i] \notin seps THEN <<s>>
    ELSE LET k == CHOOSE i \in 1..Len(s) :
                      s[i] \in seps /\ \A j \in 1..(i - 1) : s[j] \notin seps
         IN  <<SubSeq(s, 1, k - 1)>> \o split(SubSeq(s, k + 1, Len(s)), seps)

\* value.replace(',', '')
remove_commas(s) == SelectSeq(s, LAMBDA c : c # ",")

\* an optional leading '-' removed
unsigned(s) == IF s # <<>> /\ Head(s) = "-" THEN Tail(s) ELSE s

\* ExcelProcessor.__init__: the true and false literals
boolean_values == {<<"t", "r", "u", "e">>, <<"1">>, <<"y", "e", "s">>, <<"s", "i">>,
                   <<"v", "e", "r", "d", "a", "d", "e", "r", "o">>, <<"s", "í">>,
                   <<"f", "a", "l", "s", "e">>, <<"0">>, <<"n", "o">>,
                   <<"f", "a", "l", "s", "o">>}

\* value.lower() in self.boolean_values
boolean_shaped(value) == lower(value) \in boolean_values

\* ^\d{1,2}[/-]\d{1,2}[/-]\d{2,4}$
day_first_date(value) ==
    LET parts == split(value, {"/", "-"})
    IN  /\ Len(parts) = 3
        /\ digits_of_length(parts[1], 1, 2)
        /\ digits_of_length(parts[2], 1, 2)
        /\ digits_of_length(parts[3], 2, 4)

\* ^\d{4}[/-]\d{1,2}[/-]\d{1,2}$
year_first_date(value) ==
    LET parts == split(value, {"/", "-"})
    IN  /\ Len(parts) = 3
        /\ digits_of_length(parts[1], 4, 4)
        /\ digits_of_length(parts[2], 1, 2)
        /\ digits_of_length(parts[3], 1, 2)

date_shaped(value) == day_first_date(value) \/ year_first_date(value)

\* \d{1,2}:\d{2}(:\d{2})?(\s*(AM|PM))?$
time_shaped(s) ==
    LET clock == IF endswith(s, <<"A", "M">>) \/ endswith(s, <<"P", "M">>)
                 THEN rstrip(SubSeq(s, 1, Len(s) - 2))
                 ELSE s
        parts == split(clock, {":"})
    IN  /\ Len(parts) \in {2, 3}
        /\ digits_of_length(parts[1], 1, 2)
        /\ \A i \in 2..Len(parts) : digits_of_length(parts[i], 2, 2)

\* ^\d{1,2}[/-]\d{1,2}[/-]\d{2,4}\s+\d{1,2}:\d{2}(:\d{2})?(\s*(AM|PM))?$
datetime_shaped(value) ==
    /\ \E i \in 1..Len(value) : value[i] \in Whitespace
    /\ LET k == CHOOSE i \in 1..Len(value) :
                    value[i] \in Whitespace /\ \A j \in 1..(i - 1) : value[j] \notin Whitespace
       IN  /\ day_first_date(SubSeq(value, 1, k - 1))
           /\ time_shaped(lstrip(SubSeq(value, k, Len(value))))

\* ^-?\d+$ on value.replace(',', '')
integer_shaped(value) == is_digits(unsigned(remove_commas(value)))

\* ^-?\d+\.\d+$ on value.replace(',', '')
plain_decimal(value) ==
    LET parts == split(unsigned(remove_commas(value)), {"."})
    IN  Len(parts) = 2 /\ is_digits(parts[1]) /\ is_digits(parts[2])

\* ^-?\d{1,3}(,\d{3})*(\.\d+)?$
grouped_decimal(value) ==
    LET parts == split(unsigned(value), {"."})
        groups == split(parts[1], {","})
    IN  /\ Len(parts) \in {1, 2}
        /\ Len(parts) = 2 => is_digits(parts[2])
        /\ digits_of_length(groups[1], 1, 3)
        /\ \A i \in 2..Len(groups) : digits_of_length(groups[i], 3, 3)

decimal_shaped(value) == plain_decimal(value) \/ grouped_decimal(value)

\* the bucket one value is tallied in: the tests of the loop, in their order
type_of_value(raw) ==
    LET value == strip(raw)
    IN  IF boolean_shaped(value) THEN "BOOLEAN"
        ELSE IF date_shaped(value) THEN "DATE"
        ELSE IF datetime_shaped(value) THEN "DATETIME"
        ELSE IF integer_shaped(value) THEN "INTEGER"
        ELSE IF decimal_shaped(value) THEN "DECIMAL"
        ELSE "STRING"

\* the keys of type_counts, in dictionary order
DataTypes == <<"INTEGER", "DECIMAL", "DATE", "DATETIME", "BOOLEAN", "STRING">>

\* df[column].dropna(): the cells that are not NaN, as their text
dropna(cells) == [i \in 1..Len(SelectSeq(cells, LAMBDA c : c # NaN)) |->
                     SelectSeq(cells, LAMBDA c : c # NaN)[i][1]]

type_counts(series) ==
    [t \in Range(DataTypes) |-> Cardinality({i \in 1..Len(series) : type_of_value(series[i]) = t})]

\* max(percentages, key=...): the first key, in dictionary order, of highest count
max_type(counts) ==
    DataTypes[CHOOSE i \in 1..Len(DataTypes) :
                  /\ \A j \in 1..Len(DataTypes) : counts[DataTypes[j]] <= counts[DataTypes[i]]
                  /\ \A j \in 1..(i - 1) : counts[DataTypes[j]] < counts[DataTypes[i]]]

\* the type detect_column_types gives one column; count / total >= 0.6 is
\* decided here as 10 * count >= 6 * total
detect_column_type(cells) ==
    LET series == dropna(cells)
        counts == type_counts(series)
        total_values == Len(series)
    IN  IF Len(series) = 0 THEN "STRING"
        ELSE IF 10 * counts[max_type(counts)] >= 6 * total_values THEN max_type(counts)
        ELSE "STRING"

(***************************************************************************)
(* SpecTypes: detect_column_types on one column of sample cells.           *)
(***************************************************************************)
Text(s) == <<s>>

SampleCells == {NaN, Text(<<>>), Text(<<"1">>), Text(<<"2">>), Text(<<"3">>),
                Text(<<"a", "b", "c">>), Text(<<"1", ".", "5">>),
                Text(<<" ", "S", "I">>), Text(<<"1", "/", "2", "/", "2", "4">>),
                Text(<<"1", "/", "2", "/", "2", "4", " ", "9", ":", "3", "0">>)}

InitTypes ==
    /\ column \in SeqsUpTo(SampleCells, MaxColumn)
    /\ column_type = "none"
    /\ db_columns = <<>>
    /\ fuzzy_mappings = <<>>
    /\ catalog = Table(<<>>, <<>>, <<>>) /\ dest = {} /\ FilterIdle /\ DedupIdle /\ EnhancedIdle
    /\ MapperIdle /\ ValidatorIdle

detect_column_types ==
    /\ column_type = "none"
    /\ column_type' = detect_column_type(column)
    /\ UNCHANGED <<column, db_columns, fuzzy_mappings>>
    /\ UNCHANGED <<filterVars, dedupVars, enhancedVars, mapperVars, validatorVars>>

NextTypes == detect_column_types

SpecTypes == InitTypes /\ [][NextTypes]_vars

Detected == column_type # "none"

\* the texts of the column that are not NaN
NonNull == dropna(column)

\* the pattern of each type other than STRING, tested on the stripped value
\* whatever the other patterns say
Shaped(t, raw) ==
    LET value == strip(raw)
    IN  CASE t = "BOOLEAN" -> boolean_shaped(value)
          [] t = "DATE" -> date_shaped(value)
          [] t = "DATETIME" -> datetime_shaped(value)
          [] t = "INTEGER" -> integer_shaped(value)
          [] t = "DECIMAL" -> decimal_shaped(value)

PatternTypes == {"BOOLEAN", "DATE", "DATETIME", "INTEGER", "DECIMAL"}

\* the types whose pattern at least 60% of the non-null values match
SixtyPercentTypes ==
    {t \in PatternTypes :
        /\ Len(NonNull) > 0
        /\ 10 * Cardinality({i \in 1..Len(NonNull) : Shaped(t, NonNull[i])}) >= 6 * Len(NonNull)}

\* C9: the inferred type is a type whose pattern at least 60% of the non-null
\* values of the column match, and STRING when there is no such type; the
\* column "1","2","3","abc" is inferred as INTEGER
C9_SixtyPercentOfPatternGivesType ==
    Detected =>
        /\ SixtyPercentTypes # {} => column_type \in SixtyPercentTypes
        /\ SixtyPercentTypes = {} => column_type = "STRING"
        /\ column = <<Text(<<"1">>), Text(<<"2">>), Text(<<"3">>), Text(<<"a", "b", "c">>)>>
               => column_type = "INTEGER"

\* the column without its empty texts
WithoutEmpty == SelectSeq(column, LAMBDA c : c # Text(<<>>))

\* C17: null and empty values are dropped before the tally: they count toward
\* no type and not toward the denominator of the 60% rule, so the inferred type
\* is the one of the column without them (STRING when nothing remains)
C17_NullAndEmptyDropped ==
    Detected =>
        /\ column_type = detect_column_type(WithoutEmpty)
        /\ dropna(WithoutEmpty) = <<>> => column_type = "STRING"

(***************************************************************************)
(* DataValidator.validate_dataframe                                        *)
(* The frame has the shape of the frames above; a cell is NaN or <<s>>     *)
(* with s the text of the cell; the index label of row i is i - 1.         *)
(***************************************************************************)
ColumnMapping(excel_column, db_column, data_type, max_length, is_nullable) ==
    [excel_column |-> excel_column, db_column |-> db_column, data_type |-> data_type,
     max_length |-> max_length, is_nullable |-> is_nullable]

ValidationIssue(row_number, column_name, rule_name, severity) ==
    [row_number |-> row_number, column_name |-> column_name, rule_name |-> rule_name,
     severity |-> severity]

\* DataValidator.__init__: config['max_error_rate'] = 0.1, in percent
max_error_rate == 10

\* the elements of a set of column names, one after the other (the order in
\* which Python iterates over the set)
RECURSIVE in_some_order(_)
in_some_order(S) ==
    IF S = {} THEN <<>>
    ELSE LET x == CHOOSE y \in S : TRUE IN <<x>> \o in_some_order(S \ {x})

\* [f(x) for x in xs], concatenated
RECURSIVE flatten(_)
flatten(lists) == IF lists = <<>> THEN <<>> ELSE Head(lists) \o flatten(Tail(lists))

\* the mappings whose spreadsheet column is in the frame
present(d, ms) == SelectSeq(ms, LAMBDA m : m.excel_column \in d.columns)

cell(d, i, col) == d.rows[i].vals[col]

\* row_number=idx + 2
row_number(d, i) == d.rows[i].idx + 2

\* the row positions of S in row order
RECURSIVE ascending(_)
ascending(S) ==
    IF S = {} THEN <<>>
    ELSE LET m == CHOOSE x \in S : \A y \in S : x <= y IN <<m>> \o ascending(S \ {m})

_validate_structure(d, ms) ==
    LET expected_columns == {ms[k].excel_column : k \in 1..Len(ms)}
        missing == in_some_order(expected_columns \ d.columns)
        extra == in_some_order(d.columns \ expected_columns)
    IN  [k \in 1..Len(missing) |-> ValidationIssue(0, missing[k], "missing_column", "ERROR")]
        \o [k \in 1..Len(extra) |-> ValidationIssue(0, extra[k], "extra_column", "INFO")]

\* int(text): surrounding whitespace, an optional sign, digits (the sample
\* texts hold no underscore)
int_parses(text) ==
    LET t == strip(text)
    IN  is_digits(IF t # <<>> /\ Head(t) \in {"+", "-"} THEN Tail(t) ELSE t)

\* the literals _validate_cell_type accepts for BOOLEAN
cell_boolean_values == {<<"t", "r", "u", "e">>, <<"f", "a", "l", "s", "e">>,
                        <<"y", "e", "s">>, <<"n", "o">>, <<"y">>, <<"n">>, <<"1">>, <<"0">>}

\* a native bool of the frame (Text has one component, NaN none)
Bool(b) == <<b, "bool">>

\* isinstance(value, bool); a bool is also an int for the INTEGER branch
isinstance_bool(value) == Len(value) = 2

\* TRUE iff _validate_cell_type returns an error message; STRING (and any
\* type without a branch) is never an error
_validate_cell_type(value, expected_type) ==
    IF value = NaN \/ isinstance_bool(value) THEN FALSE
    ELSE CASE expected_type = "INTEGER" -> ~int_parses(remove_commas(value[1]))
           [] expected_type = "BOOLEAN" -> strip(lower(value[1])) \notin cell_boolean_values
           [] OTHER -> FALSE

_validate_data_types(d, ms) ==
    LET of_mapping(m) ==
            LET bad == ascending({i \in 1..len(d) :
                           /\ cell(d, i, m.excel_column) # NaN
                           /\ _validate_cell_type(cell(d, i, m.excel_column), m.data_type)})
            IN  [k \in 1..Len(bad) |->
                    ValidationIssue(row_number(d, bad[k]), m.excel_column,
                                    "data_type_validation", "ERROR")]
        columns == present(d, ms)
    IN  flatten([k \in 1..Len(columns) |-> of_mapping(columns[k])])

\* Series.duplicated(keep=False): the value occurs in another row too (NaN
\* counts as equal to NaN)
duplicated(d, i, col) == \E j \in 1..len(d) : j # i /\ cell(d, j, col) = cell(d, i, col)

_validate_table_constraints(d, ms, constraints) ==
    LET not_null(m) ==
            IF m.db_column \in constraints.not_null_columns /\ m.excel_column \in d.columns
            THEN LET null_rows == ascending({i \in 1..len(d) : cell(d, i, m.excel_column) = NaN})
                 IN  [k \in 1..Len(null_rows) |->
                         ValidationIssue(row_number(d, null_rows[k]), m.excel_column,
                                         "not_null_constraint", "ERROR")]
            ELSE <<>>
        unique(m) ==
            IF m.db_column \in constraints.unique_columns /\ m.excel_column \in d.columns
            THEN LET duplicates == ascending({i \in 1..len(d) : duplicated(d, i, m.excel_column)})
                 IN  [k \in 1..Len(duplicates) |->
                         ValidationIssue(row_number(d, duplicates[k]), m.excel_column,
                                         "unique_constraint", "ERROR")]
            ELSE <<>>
    IN  flatten([k \in 1..Len(ms) |-> not_null(ms[k])])
        \o flatten([k \in 1..Len(ms) |-> unique(ms[k])])

\* BusinessRuleValidator._setup_default_rules: the rules in insertion order,
\* with the types they apply to ({} for all types)
Rule(name, severity, types) == [name |-> name, severity |-> severity, applies_to_types |-> types]

rules == <<Rule("required_value", "ERROR", {}),
           Rule("string_length", "ERROR", {"STRING"}),
           Rule("email_format", "WARNING", {"STRING"}),
           Rule("positive_number", "WARNING", {"INTEGER", "DECIMAL"}),
           Rule("date_range", "WARNING", {"DATE", "DATETIME"}),
           Rule("special_characters", "INFO", {"STRING"}),
           Rule("duplicates", "ERROR", {})>>

\* the validator functions; TRUE iff the value passes
_validate_required(value, m) ==
    m.is_nullable \/ ~(value = NaN \/ strip(value[1]) = <<>>)

_validate_string_length(value, m) ==
    value = NaN \/ m.max_length = <<>> \/ Len(value[1]) <= m.max_length[1]

LocalChars == AlnumChars \cup Range(UpperChars) \cup {".", "_", "%", "+", "-"}

DomainChars == AlnumChars \cup Range(UpperChars) \cup {".", "-"}

\* ^[a-zA-Z0-9._%+-]+@[a-zA-Z0-9.-]+\.[a-zA-Z]{2,}$
email_shaped(s) ==
    \E i, j \in 1..Len(s) :
        /\ i > 1 /\ s[i] = "@" /\ \A k \in 1..(i - 1) : s[k] \in LocalChars
        /\ j > i + 1 /\ s[j] = "." /\ \A k \in (i + 1)..(j - 1) : s[k] \in DomainChars
        /\ Len(s) >= j + 2
        /\ \A k \in (j + 1)..Len(s) : s[k] \in Range(UpperChars) \cup Range(LowerChars)

_validate_email_format(value, m) ==
    \/ value = NaN
    \/ ~(contains(lower(m.excel_column), <<"e", "m", "a", "i", "l">>)
         \/ contains(lower(m.excel_column), <<"m", "a", "i", "l">>))
    \/ email_shaped(value[1])

problematic_chars == <<<<"'">>, <<"\"">>, <<";">>, <<"-", "-">>, <<"/", "*">>, <<"*", "/">>,
                       <<"x", "p", "_">>, <<"s", "p", "_">>>>

_validate_special_characters(value, m) ==
    value = NaN \/ \A k \in 1..Len(problematic_chars) : ~contains(value[1], problematic_chars[k])

\* positive_number and date_range return early for a column whose name holds
\* none of their indicators, resp. pass a text that is no date; duplicates
\* always passes
passes(rule, value, m) ==
    CASE rule.name = "required_value" -> _validate_required(value, m)
      [] rule.name = "string_length" -> _validate_string_length(value, m)
      [] rule.name = "email_format" -> _validate_email_format(value, m)
      [] rule.name = "special_characters" -> _validate_special_characters(value, m)
      [] OTHER -> TRUE

_validate_business_rules(d, ms) ==
    LET applicable_rules(m) ==
            SelectSeq(rules, LAMBDA rule :
                rule.applies_to_types = {} \/ m.data_type \in rule.applies_to_types)
        of_cell(m, i) ==
            LET failed == SelectSeq(applicable_rules(m), LAMBDA rule :
                              ~passes(rule, cell(d, i, m.excel_column), m))
            IN  [k \in 1..Len(failed) |->
                    ValidationIssue(row_number(d, i), m.excel_column, failed[k].name,
                                    failed[k].severity)]
        of_mapping(m) == flatten([i \in 1..len(d) |-> of_cell(m, i)])
        columns == present(d, ms)
    IN  flatten([k \in 1..Len(columns) |-> of_mapping(columns[k])])

unique_indicators == <<<<"i", "d">>, <<"c", "o", "d", "e">>, <<"n", "u", "m", "b", "e", "r">>,
                       <<"c", "o", "d", "i", "g", "o">>, <<"n", "u", "m", "e", "r", "o">>>>

_validate_duplicates(d, ms) ==
    LET of_mapping(m) ==
            IF \E k \in 1..Len(unique_indicators) :
                   contains(lower(m.excel_column), unique_indicators[k])
            THEN LET duplicates == ascending({i \in 1..len(d) : duplicated(d, i, m.excel_column)})
                 IN  [k \in 1..Len(duplicates) |->
                         ValidationIssue(row_number(d, duplicates[k]), m.excel_column,
                                         "potential_duplicate", "WARNING")]
            ELSE <<>>
        columns == present(d, ms)
    IN  flatten([k \in 1..Len(columns) |-> of_mapping(columns[k])])

ValidationResult(is_valid, processed_rows, valid_rows, errors, warnings) ==
    [is_valid |-> is_valid, processed_rows |-> processed_rows, valid_rows |-> valid_rows,
     errors |-> errors, warnings |-> warnings]

\* table_constraints is <<>> (None) or <<c>>; an empty dict is as good as None
validate_dataframe(d, ms, constraints) ==
    LET processed_rows == len(d)
        issues == _validate_structure(d, ms)
                  \o _validate_data_types(d, ms)
                  \o (IF constraints # <<>> THEN _validate_table_constraints(d, ms, constraints[1])
                      ELSE <<>>)
                  \o _validate_business_rules(d, ms)
                  \o _validate_duplicates(d, ms)
        error_count == Len(SelectSeq(issues, LAMBDA issue : issue.severity = "ERROR"))
        \* error_rate <= max_error_rate, with error_rate = 0 for an empty frame
        is_valid == IF processed_rows > 0
                    THEN 100 * error_count <= max_error_rate * processed_rows
                    ELSE TRUE
    IN  ValidationResult(is_valid, processed_rows, processed_rows - error_count,
            SelectSeq(issues, LAMBDA issue : issue.severity \in {"ERROR", "CRITICAL"}),
            SelectSeq(issues, LAMBDA issue : issue.severity \notin {"ERROR", "CRITICAL"})
            \o (IF is_valid THEN <<>>
                ELSE <<ValidationIssue(0, <<"G", "E", "N", "E", "R", "A", "L">>,
                                       "error_rate_check", "WARNING")>>))

(***************************************************************************)
(* SpecValidator: one call of validate_dataframe on a frame with the       *)
(* columns id and name: a few free rows, followed or not by a run of       *)
(* flawless rows, under sample mappings and table constraints.             *)
(***************************************************************************)
\* number of free rows of a frame
MaxDfRows == 2

\* number of flawless rows that may follow the free rows
Padding == 9

id == <<"i", "d">>

name == <<"n", "a", "m", "e">>

email == <<"e", "m", "a", "i", "l">>

IdCells == {NaN, Text(<<"1", "2">>), Text(<<"a", "b">>)}

NameCells == {NaN, Text(<<>>), Text(<<"a">>), Text(<<"a", "b", "c">>)}

FreeRows == {[c \in {id, name} |-> IF c = id THEN i ELSE n] : i \in IdCells, n \in NameCells}

DigitSeq == <<"0", "1", "2", "3", "4", "5", "6", "7", "8", "9">>

\* the j-th flawless row: an id of its own and a short name
FlawlessRow(j) ==
    [c \in {id, name} |->
        IF c = id THEN Text(<<"9", DigitSeq[((j \div 10) % 10) + 1], DigitSeq[(j % 10) + 1]>>)
        ELSE Text(<<"a">>)]

\* the frame of the given rows, with the default index 0, 1, ..
Frame(values) ==
    [columns |-> {id, name},
     rows |-> [i \in 1..Len(values) |-> [idx |-> i - 1, vals |-> values[i]]]]

ValidatorFrames ==
    {Frame(free \o [j \in 1..p |-> FlawlessRow(j)]) :
        free \in SeqsUpTo(FreeRows, MaxDfRows), p \in {0, Padding}}

MappingLists ==
    UNION {{<<ColumnMapping(id, id, "INTEGER", <<>>, id_nullable)>>,
            <<ColumnMapping(id, id, "INTEGER", <<>>, id_nullable),
              ColumnMapping(name, name, "STRING", max_length, name_nullable)>>,
            <<ColumnMapping(id, id, "INTEGER", <<>>, id_nullable),
              ColumnMapping(name, name, "STRING", max_length, name_nullable),
              ColumnMapping(email, email, "STRING", <<>>, TRUE)>>} :
           id_nullable \in BOOLEAN, name_nullable \in BOOLEAN, max_length \in {<<>>, <<2>>}}

Constraints(not_null_columns, unique_columns) ==
    [not_null_columns |-> not_null_columns, unique_columns |-> unique_columns]

ConstraintSets == {<<>>, <<Constraints({id}, {})>>, <<Constraints({}, {id})>>,
                   <<Constraints({id, name}, {id})>>}

InitValidator ==
    /\ df \in ValidatorFrames
    /\ column_mappings \in MappingLists
    /\ table_constraints \in ConstraintSets
    /\ validation = <<>>
    /\ CellTypeIdle
    /\ catalog = Table(<<>>, <<>>, <<>>) /\ dest = {} /\ FilterIdle /\ DedupIdle /\ EnhancedIdle
    /\ MapperIdle /\ TypesIdle

validate ==
    /\ validation = <<>>
    /\ validation' = <<validate_dataframe(df, column_mappings, table_constraints)>>
    /\ UNCHANGED <<df, column_mappings, table_constraints>>
    /\ UNCHANGED <<cell_value, cell_expected_type, cell_type_error>>
    /\ UNCHANGED <<filterVars, dedupVars, enhancedVars, mapperVars, typeVars>>

NextValidator == validate

SpecValidator == InitValidator /\ [][NextValidator]_vars

Validated == validation # <<>>

\* the rows that have at least one issue in the errors of the result (the
\* row 0 of the issues about the frame as a whole counted as one row)
ErrorRows ==
    {validation[1].errors[k].row_number : k \in 1..Len(validation[1].errors)}

\* C10: is_valid is false exactly when the number of rows with at least one
\* ERROR issue, divided by the number of processed rows, exceeds
\* max_error_rate; several ERROR issues of one row count as one error row
C10_InvalidIffErrorRowRateExceeds ==
    Validated =>
        (validation[1].is_valid = FALSE
            <=> /\ validation[1].processed_rows > 0
                /\ 100 * Cardinality(ErrorRows) > max_error_rate * validation[1].processed_rows)

\* every issue of the result, errors first
AllIssues == validation[1].errors \o validation[1].warnings

\* the column is declared NOT NULL: by its mapping (is_nullable = False) or by
\* the table constraints handed in
DeclaredNotNull(c) ==
    \E k \in 1..Len(column_mappings) :
        /\ column_mappings[k].excel_column = c
        /\ \/ ~column_mappings[k].is_nullable
           \/ /\ table_constraints # <<>>
              /\ column_mappings[k].db_column \in table_constraints[1].not_null_columns

\* the issue is about a cell of the frame, and that cell is null
OnNullCell(issue) ==
    /\ issue.row_number >= 2 /\ issue.row_number - 1 <= len(df)
    /\ issue.column_name \in df.columns
    /\ cell(df, issue.row_number - 1, issue.column_name) = NaN

\* C13: an issue is raised for a null cell only when the cell's destination
\* column is declared NOT NULL; a null cell of a nullable column gets no issue
\* from any check
C13_NullFlaggedOnlyIfNotNull ==
    Validated =>
        \A k \in 1..Len(AllIssues) :
            OnNullCell(AllIssues[k]) => DeclaredNotNull(AllIssues[k].column_name)

\* the rows of the frame that have at least one issue of severity ERROR
RowsWithError ==
    {i \in 1..len(df) :
        \E k \in 1..Len(validation[1].errors) :
            /\ validation[1].errors[k].severity = "ERROR"
            /\ validation[1].errors[k].row_number = row_number(df, i)}

\* C29: in the result of validate_dataframe 0 <= valid_rows <= processed_rows,
\* and valid_rows is the number of rows without an ERROR issue
C29_ValidRowsAreErrorFreeRows ==
    Validated =>
        /\ 0 <= validation[1].valid_rows
        /\ validation[1].valid_rows <= validation[1].processed_rows
        /\ validation[1].valid_rows = len(df) - Cardinality(RowsWithError)

(***************************************************************************)
(* ExcelProcessor.fuzzy_match_columns                                      *)
(* Scores are kept as exact fractions num / den of a percentage.           *)
(***************************************************************************)
\* ExcelProcessor.__init__: fuzzy_threshold = 0.8, as the percentage it is
\* compared with (fuzzy_threshold * 100)
fuzzy_match_threshold == 80

Fraction(num, den) == [num |-> num, den |-> den]

\* a > b and a >= b for fractions with positive denominators
greater(a, b) == a.num * b.den > b.num * a.den

at_least(a, percent) == a.num >= percent * a.den

\* one row of the distance table: v1 from v0 and the character c of a
RECURSIVE levenshtein_row(_, _, _, _)
levenshtein_row(c, b, v0, v1) ==
    IF Len(v1) = Len(b) + 1 THEN v1
    ELSE LET j == Len(v1)
             cost == IF c = b[j] THEN 0 ELSE 1
         IN  levenshtein_row(c, b, v0,
                 Append(v1, Min(Min(v1[j] + 1, v0[j + 1] + 1), v0[j] + cost)))

RECURSIVE levenshtein_rows(_, _, _, _)
levenshtein_rows(a, b, i, v0) ==
    IF i > Len(a) THEN v0
    ELSE levenshtein_rows(a, b, i + 1, levenshtein_row(a[i], b, v0, <<i>>))

levenshtein(a, b) ==
    IF a = b THEN 0
    ELSE IF Len(a) = 0 THEN Len(b)
    ELSE IF Len(b) = 0 THEN Len(a)
    ELSE levenshtein_rows(a, b, 1, [j \in 1..(Len(b) + 1) |-> j - 1])[Len(b) + 1]

\* 100 * (1 - levenshtein(a, b) / max(len(a), len(b), 1))
_simple_ratio(a, b) ==
    LET longest == Max(Max(Len(a), Len(b)), 1)
    IN  Fraction(100 * (longest - levenshtein(a, b)), longest)

\* 100 when one name is inside the other, else the simple ratio
_partial_ratio(a, b) ==
    IF contains(b, a) \/ contains(a, b) THEN Fraction(100, 1) ELSE _simple_ratio(a, b)

\* the mean of the two ratios of the lower-cased names
_fuzzy_ratio(a, b) ==
    LET simple == _simple_ratio(lower(a), lower(b))
        partial == _partial_ratio(lower(a), lower(b))
    IN  Fraction(simple.num * partial.den + partial.num * simple.den,
                 2 * simple.den * partial.den)

\* the ColumnMapping of one spreadsheet column (data_type is UNKNOWN)
FuzzyMapping(excel_column, db_column, excel_index, confidence_score, validation_errors) ==
    [excel_column |-> excel_column, db_column |-> db_column, excel_index |-> excel_index,
     confidence_score |-> confidence_score, validation_errors |-> validation_errors]

\* the loop over db_columns: the best column so far, <<>> while there is none
RECURSIVE best_db_column(_, _, _, _, _)
best_db_column(excel_col, db_cols, used, best_match, best_score) ==
    IF db_cols = <<>> THEN [best_match |-> best_match, best_score |-> best_score]
    ELSE LET db_col == Head(db_cols)
             ratio_score == _fuzzy_ratio(excel_col, db_col)
         IN  IF db_col \notin used /\ greater(ratio_score, best_score)
             THEN best_db_column(excel_col, Tail(db_cols), used, <<db_col>>, ratio_score)
             ELSE best_db_column(excel_col, Tail(db_cols), used, best_match, best_score)

\* the loop over excel_columns from position i on
RECURSIVE fuzzy_match_from(_, _, _, _)
fuzzy_match_from(excel_cols, db_cols, i, used) ==
    IF i > Len(excel_cols) THEN <<>>
    ELSE LET excel_col == excel_cols[i]
             best == best_db_column(excel_col, db_cols, used, <<>>, Fraction(0, 1))
         IN  IF best.best_match # <<>> /\ best.best_match[1] # <<>>
                /\ at_least(best.best_score, fuzzy_match_threshold)
             THEN <<FuzzyMapping(excel_col, best.best_match[1], i - 1,
                                Fraction(best.best_score.num, 100 * best.best_score.den), 0)>>
                  \o fuzzy_match_from(excel_cols, db_cols, i + 1,
                                      used \cup {best.best_match[1]})
             ELSE <<FuzzyMapping(excel_col, excel_col, i - 1, Fraction(0, 1), 1)>>
                  \o fuzzy_match_from(excel_cols, db_cols, i + 1, used)

fuzzy_match_columns(excel_cols, db_cols) == fuzzy_match_from(excel_cols, db_cols, 1, {})

(***************************************************************************)
(* SpecFuzzy: one call of fuzzy_match_columns on lists of sample names.    *)
(***************************************************************************)
FuzzyExcelNames == {email, <<"E", "m", "a", "i", "l", "s">>, <<"t", "e", "l">>}

FuzzyDbNames == {email, name, <<"m", "a", "i", "l">>}

InitFuzzy ==
    /\ excel_columns \in SeqsUpTo(FuzzyExcelNames, MaxExcel)
    /\ db_columns \in SeqsUpTo(FuzzyDbNames, MaxSql)
    /\ fuzzy_mappings = <<>>
    /\ sql_columns = <<>> /\ table_structure = {} /\ fuzz = <<>> /\ mappings = <<>>
    /\ column = <<>> /\ column_type = "none"
    /\ catalog = Table(<<>>, <<>>, <<>>) /\ dest = {} /\ FilterIdle /\ DedupIdle /\ EnhancedIdle
    /\ ValidatorIdle

fuzzy_match ==
    /\ fuzzy_mappings = <<>>
    /\ fuzzy_mappings' = <<fuzzy_match_columns(excel_columns, db_columns)>>
    /\ UNCHANGED <<column, column_type, db_columns>>
    /\ UNCHANGED <<filterVars, dedupVars, enhancedVars, mapperVars, validatorVars>>

NextFuzzy == fuzzy_match

SpecFuzzy == InitFuzzy /\ [][NextFuzzy]_vars

FuzzyMatched == fuzzy_mappings # <<>>

\* C14: in a list returned by fuzzy_match_columns each db_column value is in at
\* most one mapping, the mappings of the columns without a match included
C14_DbColumnMappedOnce ==
    FuzzyMatched =>
        \A i, j \in 1..Len(fuzzy_mappings[1]) :
            i # j => fuzzy_mappings[1][i].db_column # fuzzy_mappings[1][j].db_column

(***************************************************************************)
(* SpecCellType: one call of _validate_cell_type on a sample cell.         *)
(***************************************************************************)
\* the literals of the sample, lower-cased
SampleLiterals ==
    cell_boolean_values \cup boolean_values
        \cup {<<>>, <<"2">>, <<"1", "0">>, <<"t">>, <<"o", "n">>, <<"1", ",", "0", "0", "0">>}

capitalize(s) == IF s = <<>> THEN s ELSE <<upper_char(s[1])>> \o Tail(s)

\* each literal as written, capitalized, in capitals and padded with blanks
CellTexts ==
    UNION {{s, capitalize(s), upper(s), <<" ">> \o s \o <<" ">>} : s \in SampleLiterals}

CellValues == {NaN, Bool(TRUE), Bool(FALSE)} \cup {Text(s) : s \in CellTexts}

ExpectedTypes == {"BOOLEAN", "INTEGER", "STRING"}

InitCellType ==
    /\ cell_value \in CellValues
    /\ cell_expected_type \in ExpectedTypes
    /\ cell_type_error = <<>>
    /\ df = <<>> /\ column_mappings = <<>> /\ table_constraints = <<>> /\ validation = <<>>
    /\ catalog = Table(<<>>, <<>>, <<>>) /\ dest = {} /\ FilterIdle /\ DedupIdle /\ EnhancedIdle
    /\ MapperIdle /\ TypesIdle

validate_cell_type ==
    /\ cell_type_error = <<>>
    /\ cell_type_error' = <<_validate_cell_type(cell_value, cell_expected_type)>>
    /\ UNCHANGED <<cell_value, cell_expected_type>>
    /\ UNCHANGED <<df, column_mappings, table_constraints, validation>>
    /\ UNCHANGED <<filterVars, dedupVars, enhancedVars, mapperVars, typeVars>>

NextCellType == validate_cell_type

SpecCellType == InitCellType /\ [][NextCellType]_vars

\* the literals the boolean check is said to accept
SpecifiedBooleanLiterals ==
    {<<"t", "r", "u", "e">>, <<"f", "a", "l", "s", "e">>, <<"y", "e", "s">>, <<"n", "o">>,
     <<"y">>, <<"n">>, <<"1">>, <<"0">>,
     <<"v", "e", "r", "d", "a", "d", "e", "r", "o">>, <<"f", "a", "l", "s", "o">>,
     <<"s", "í">>, <<"s", "i">>}

\* C16: for BOOLEAN, _validate_cell_type accepts the native booleans and, in any
\* letter case, the twelve literals, and reports an error for every other
\* value that is not null
C16_BooleanLiteralsAccepted ==
    (cell_type_error # <<>> /\ cell_expected_type = "BOOLEAN" /\ cell_value # NaN) =>
        (cell_type_error[1] <=>
            ~(\/ isinstance_bool(cell_value)
              \/ lower(cell_value[1]) \in SpecifiedBooleanLiterals))

(***************************************************************************)
(* DuplicateFilter.remove_internal_duplicates                              *)
(***************************************************************************)
\* the key of row i of the frame: its values in the columns of keys
key_values(d, i, keys) == [k \in 1..Len(keys) |-> d.rows[i].vals[keys[k]]]

\* DataFrame.duplicated(subset=keys, keep=how) for row i; pandas takes two
\* nulls of a column for equal values
frame_duplicated(d, i, keys, how) ==
    LET same(j) == key_values(d, j, keys) = key_values(d, i, keys)
    IN  CASE how = "first" -> \E j \in 1..(i - 1) : same(j)
          [] how = "last" -> \E j \in (i + 1)..len(d) : same(j)
          [] how = "False" -> \E j \in 1..len(d) : j # i /\ same(j)

\* DataFrame.drop_duplicates(subset=keys, keep=how): the other rows, in order
drop_duplicates(d, keys, how) ==
    LET kept == ascending({i \in 1..len(d) : ~frame_duplicated(d, i, keys, how)})
    IN  [d EXCEPT !.rows = [k \in 1..Len(kept) |-> d.rows[kept[k]]]]

\* analyze_duplicates_in_data(...)['has_internal_duplicates']
has_internal_duplicates(d, keys) ==
    IF len(d) = 0 \/ keys = <<>> THEN FALSE
    ELSE IF missing_columns(keys, d) # <<>> THEN FALSE
    ELSE \E i \in 1..len(d) : frame_duplicated(d, i, keys, "False")

DedupStats(original_count, final_count, removed_count) ==
    [original_count |-> original_count, final_count |-> final_count,
     removed_count |-> removed_count]

\* variant: drop_duplicates always called with keep='first'
remove_internal_duplicates_KeepFirst(d, keys, how) ==
    LET deduplicated_data == drop_duplicates(d, keys, "first")
    IN  IF len(d) = 0 \/ keys = <<>> \/ ~has_internal_duplicates(d, keys)
        THEN [data |-> d, stats |-> DedupStats(len(d), len(d), 0)]
        ELSE [data |-> deduplicated_data,
              stats |-> DedupStats(len(d), len(deduplicated_data),
                                   len(d) - len(deduplicated_data))]

remove_internal_duplicates(d, keys, how) ==
    IF len(d) = 0 \/ keys = <<>> THEN [data |-> d, stats |-> DedupStats(len(d), len(d), 0)]
    ELSE IF ~has_internal_duplicates(d, keys)
    THEN [data |-> d, stats |-> DedupStats(len(d), len(d), 0)]
    ELSE LET deduplicated_data == drop_duplicates(d, keys, how)
         IN  [data |-> deduplicated_data,
              stats |-> DedupStats(len(d), len(deduplicated_data),
                                   len(d) - len(deduplicated_data))]

(***************************************************************************)
(* SpecDedup: one call of remove_internal_duplicates on a batch, next to a *)
(* destination table that holds a row.                                     *)
(***************************************************************************)
KeyLists == {<<>>, <<"a">>, <<"b">>, <<"a", "b">>}

KeepValues == {"first", "last", "False"}

InitDedup ==
    /\ batch \in InputFrames
    /\ subset \in KeyLists
    /\ keep \in KeepValues
    /\ deduplicated = <<>>
    /\ catalog = Table(<<"a">>, <<>>, <<>>)
    /\ dest = {[c \in TableCols |-> "k1"]}
    /\ FilterIdle /\ EnhancedIdle
    /\ MapperIdle /\ TypesIdle /\ ValidatorIdle

remove_duplicates ==
    /\ deduplicated = <<>>
    /\ deduplicated' = <<remove_internal_duplicates(batch, subset, keep)>>
    /\ UNCHANGED <<batch, subset, keep>>
    /\ UNCHANGED <<filterVars, enhancedVars, mapperVars, typeVars, validatorVars>>

NextDedup == remove_duplicates

SpecDedup == InitDedup /\ [][NextDedup]_vars

Deduplicated == deduplicated # <<>>

\* the subset names a key of the batch: at least one column, all of them present
HasKey == subset # <<>> /\ \A k \in 1..Len(subset) : subset[k] \in batch.columns

\* the positions of the batch whose key is the key of position i
KeyPositions(i) ==
    {j \in 1..len(batch) : \A k \in 1..Len(subset) :
        batch.rows[j].vals[subset[k]] = batch.rows[i].vals[subset[k]]}

\* the positions the keep strategy retains
Retained ==
    {i \in 1..len(batch) :
        CASE keep = "first" -> \A j \in KeyPositions(i) : i <= j
          [] keep = "last" -> \A j \in KeyPositions(i) : j <= i
          [] keep = "False" -> KeyPositions(i) = {i}}

\* C18: remove_internal_duplicates issues no query and leaves the destination
\* alone; for a key of the batch it returns, in the original order, exactly the
\* first occurrence of each key (keep='first'), the last one (keep='last') or the
\* rows whose key occurs once (keep=False), and removed_count is original_count
\* minus final_count
C18_InternalDuplicatesRemoved ==
    Deduplicated =>
        LET returned == deduplicated[1].data
            stats == deduplicated[1].stats
        IN  /\ queryLog = <<>> /\ catalogLog = <<>> /\ faults = 0
            /\ dest = {[c \in TableCols |-> "k1"]}
            /\ stats.original_count = len(batch)
            /\ stats.final_count = len(returned)
            /\ stats.removed_count = stats.original_count - stats.final_count
            /\ HasKey => returned.rows = [k \in 1..Cardinality(Retained) |->
                                             batch.rows[ascending(Retained)[k]]]

\* a batch of four rows with a key of two columns in which a key occurs twice
\* and another once, deduplicated with keep='last': one row was removed
C18_Witness ==
    /\ Deduplicated /\ HasKey
    /\ len(batch) = 4 /\ subset = <<"a", "b">> /\ keep = "last"
    /\ \E i \in 1..4 : KeyPositions(i) = {i}
    /\ \E i \in 1..4 : Cardinality(KeyPositions(i)) = 2 /\ isna(batch.rows[i].vals["a"])
    /\ deduplicated[1].stats.removed_count = 1
    /\ deduplicated[1].data.rows[1].idx # 0


(***************************************************************************)
(* EnhancedExcelProcessor.process_excel_file_enhanced and the top-level    *)
(* except clause of DuplicateFilter.filter_duplicates                      *)
(***************************************************************************)
ProcessingResult(success, processed_rows, skipped_rows, errors, warnings, frame) ==
    [success |-> success, processed_rows |-> processed_rows, skipped_rows |-> skipped_rows,
     errors |-> errors, warnings |-> warnings, data |-> frame]

EnhancedProcessingResult(success, original_rows, processed_rows, skipped_rows, duplicate_rows, new_rows, errors, warnings, frame) ==
    [success |-> success, original_rows |-> original_rows, processed_rows |-> processed_rows,
     skipped_rows |-> skipped_rows, duplicate_rows |-> duplicate_rows, new_rows |-> new_rows,
     errors |-> errors, warnings |-> warnings, data |-> frame]

\* variant: the except clause of filter_duplicates reporting a success
FilterExceptionResult_Success ==
    DuplicateFilterResult(TRUE, 0, 0, 0, <<>>, Info("empty", <<>>), <<>>, <<>>)

\* the except clause of filter_duplicates (lines 162-177) for data = None
FilterExceptionResult ==
    DuplicateFilterResult(FALSE, 0, 0, 0, <<>>, Info("empty", <<>>),
                          <<Msg("exception", <<>>)>>, <<>>)

\* the two early returns (lines 108-132)
EnhancedRefusal(kind) ==
    EnhancedProcessingResult(FALSE, 0, 0, 0, 0, 0, <<Msg(kind, <<>>)>>, <<>>, <<>>)

\* the except clause of process_excel_file_enhanced (lines 235-249)
EnhancedExceptionResult ==
    EnhancedProcessingResult(FALSE, 0, 0, 0, 0, 0, <<Msg("exception", <<>>)>>, <<>>, <<>>)

\* the result of the base processing handed on (lines 142-156)
ConvertedResult(base) ==
    EnhancedProcessingResult(base.success, base.processed_rows + base.skipped_rows,
                             base.processed_rows, base.skipped_rows, 0, base.processed_rows,
                             base.errors, base.warnings, base.data)

\* _remove_internal_duplicates: the batch without the repeated keys of the
\* best identifier, and how many rows were removed
_remove_internal_duplicates(d, f) ==
    LET best_id == get_best_unique_identifier(catalog, f)
    IN  IF best_id = <<>> THEN [data |-> d, removed_count |-> 0]
        ELSE LET removed == remove_internal_duplicates(d, best_id[1].columns, "first")
             IN  [data |-> removed.data, removed_count |-> removed.stats.removed_count]

internal_duplicates_warning(removed_count) ==
    IF removed_count > 0 THEN <<Msg("internal_duplicates_removed", <<>>)>> ELSE <<>>

\* the result after the optional filtering (lines 189-231); filtered is the
\* Optional result of filter_duplicates
EnhancedResult(call, filtered) ==
    LET processed_data == IF filtered # <<>> /\ filtered[1].success
                          THEN filtered[1].filtered_data[1] ELSE call.processed_data
        final_count == len(processed_data)
        duplicate_count == IF filtered # <<>> THEN filtered[1].duplicate_count ELSE 0
        filter_errors == IF filtered # <<>> THEN filtered[1].errors ELSE <<>>
        filter_warnings == IF filtered # <<>> THEN filtered[1].warnings ELSE <<>>
    IN  EnhancedProcessingResult(filter_errors = <<>>, call.original_count, final_count,
                                 call.base.skipped_rows, duplicate_count, final_count,
                                 call.base.errors \o filter_errors,
                                 call.base.warnings \o filter_warnings
                                     \o internal_duplicates_warning(call.removed_count),
                                 <<processed_data>>)

(***************************************************************************)
(* SpecEnhanced: one call of process_excel_file_enhanced, with the steps   *)
(* of the filter_duplicates it runs, or one call of filter_duplicates,     *)
(* also with data = None.                                                  *)
(***************************************************************************)
\* what process_excel_file returns: a failure without data or the cleaned sheet
\* (which may lack a column of the destination table)
BaseResults ==
    {ProcessingResult(FALSE, 0, 0, <<Msg("file_not_read", <<>>)>>, <<>>, <<>>)}
        \cup {ProcessingResult(TRUE, len(d), 0, <<>>, <<>>, <<d>>) : d \in InputFrames}

\* variant: the types transformed before the sheet is cleaned
base_stages_TransformFirst(mappings_given) ==
    <<"validate_file", "read", "transform", "clean">>
        \o (IF mappings_given THEN <<"apply_mappings">> ELSE <<>>)
        \o <<"validate", "filter_valid_rows">>

\* the steps of process_excel_file in the order of its statements (lines
\* 270-290); the column mappings are applied only when some are given
base_stages(mappings_given) ==
    <<"validate_file", "read", "clean">>
        \o (IF mappings_given THEN <<"apply_mappings">> ELSE <<>>)
        \o <<"validate", "transform", "filter_valid_rows">>

\* a run of process_excel_file: its result and the steps it started; a failed
\* run stopped at one of its steps (validate_file or the read said no, or the
\* step raised)
BaseRuns ==
    {[result |-> r, stages |-> base_stages(g)] :
        r \in {b \in BaseResults : b.success}, g \in BOOLEAN}
    \cup UNION {{[result |-> r, stages |-> SubSeq(base_stages(g), 1, n)] :
                    n \in 1..Len(base_stages(g))} :
                       r \in {b \in BaseResults : ~b.success}, g \in BOOLEAN}

InitEnhanced == InitFilter

\* filter_duplicates(schema, table, None): len(data) raises inside the try
filter_duplicates_none ==
    /\ pc = "idle"
    /\ result' = <<FilterExceptionResult>>
    /\ caught' = caught \cup {"filter_duplicates"}
    /\ pc' = "done"
    /\ run' = run + 1
    /\ UNCHANGED <<catalog, dest, arg_data, data, best_identifier, identifier_used,
                   key_columns, start_idx, exists_flags, exists_in_db, queryLog,
                   catalogLog, inserted, faults>>
    /\ UNCHANGED <<enhanced_call, enhanced_result, stage_log, insert_log>>
    /\ UNCHANGED <<dedupVars, mapperVars, typeVars, validatorVars>>

\* process_excel_file_enhanced up to the call of filter_duplicates (lines
\* 102-176), or up to its return when it does not get that far
enhanced_body(filter_wanted, target_given, filter_available, base, step_raises, f) ==
    LET base_result == base.result
        internal == _remove_internal_duplicates(base_result.data[1], f)
        call == [base |-> base_result, original_count |-> len(base_result.data[1]),
                 processed_data |-> internal.data, removed_count |-> internal.removed_count]
        unfiltered == [base |-> base_result, original_count |-> len(base_result.data[1]),
                       processed_data |-> base_result.data[1], removed_count |-> 0]
        returns(r, stages) == /\ enhanced_result' = <<r>>
                              /\ enhanced_call' = <<>>
                              /\ stage_log' = stages
                              /\ pc' = "enhanced_done"
                              /\ UNCHANGED <<faults, caught>>
    IN  /\ IF filter_wanted /\ ~target_given
           THEN returns(EnhancedRefusal("target_required"), <<"argument_checks">>)
           ELSE IF filter_wanted /\ ~filter_available
           THEN returns(EnhancedRefusal("filter_not_available"), <<"argument_checks">>)
           ELSE IF step_raises
           THEN /\ enhanced_result' = <<EnhancedExceptionResult>>
                /\ enhanced_call' = <<>>
                /\ stage_log' = <<"argument_checks">>
                /\ caught' = caught \cup {"process_excel_file_enhanced"}
                /\ pc' = "enhanced_done"
                /\ UNCHANGED faults
           ELSE IF ~base_result.success \/ base_result.data = <<>>
           THEN returns(ConvertedResult(base_result), <<"argument_checks">> \o base.stages)
           ELSE IF ~filter_wanted
           THEN returns(EnhancedResult(unfiltered, <<>>), <<"argument_checks">> \o base.stages)
           ELSE /\ faults + RaiseCount(f) <= MaxFaults
                /\ faults' = faults + RaiseCount(f)
                /\ enhanced_call' = <<call>>
                /\ enhanced_result' = <<>>
                /\ stage_log' = <<"argument_checks">> \o base.stages
                                    \o <<"remove_internal_duplicates">>
                /\ pc' = "enhanced_filter"
                /\ UNCHANGED caught
        /\ UNCHANGED <<catalog, dest, arg_data, data, best_identifier, identifier_used,
                       key_columns, start_idx, exists_flags, exists_in_db, result, queryLog,
                       catalogLog, run, inserted, insert_log>>
        /\ UNCHANGED <<dedupVars, mapperVars, typeVars, validatorVars>>

process_excel_file_enhanced ==
    /\ pc = "idle"
    /\ \E filter_wanted \in BOOLEAN, target_given \in BOOLEAN, filter_available \in BOOLEAN,
          base \in BaseRuns, step_raises \in BOOLEAN, f \in Raises :
        enhanced_body(filter_wanted, target_given, filter_available, base, step_raises, f)

\* the call self.duplicate_filter.filter_duplicates(.., processed_data), line 178
enhanced_filter_duplicates ==
    /\ pc = "enhanced_filter"
    /\ \E f \in Raises : filter_duplicates_body(enhanced_call[1].processed_data, f)
    /\ stage_log' = Append(stage_log, "filter_duplicates")
    /\ UNCHANGED <<inserted, enhanced_call, enhanced_result, caught, insert_log>>
    /\ UNCHANGED <<dedupVars, mapperVars, typeVars, validatorVars>>

\* process_excel_file_enhanced after filter_duplicates returned (lines 182-233);
\* a step of it may raise
enhanced_return ==
    /\ pc = "done"
    /\ enhanced_call # <<>>
    /\ \E step_raises \in BOOLEAN :
        IF step_raises
        THEN /\ enhanced_result' = <<EnhancedExceptionResult>>
             /\ caught' = caught \cup {"process_excel_file_enhanced"}
        ELSE /\ enhanced_result' = <<EnhancedResult(enhanced_call[1], result)>>
             /\ UNCHANGED caught
    /\ pc' = "enhanced_done"
    /\ UNCHANGED <<enhanced_call, stage_log, insert_log>>
    /\ UNCHANGED <<catalog, dest, arg_data, data, best_identifier, identifier_used,
                   key_columns, start_idx, exists_flags, exists_in_db, result, queryLog,
                   catalogLog, run, inserted, faults>>
    /\ UNCHANGED <<dedupVars, mapperVars, typeVars, validatorVars>>

NextEnhanced ==
    \/ filter_duplicates
    \/ filter_duplicates_none
    \/ process_excel_file_enhanced
    \/ enhanced_filter_duplicates
    \/ filter_new_records
    \/ check_row
    \/ filter_return
    \/ enhanced_return

SpecEnhanced == InitEnhanced /\ [][NextEnhanced]_vars

\* C20: filter_duplicates and process_excel_file_enhanced end with a result
\* object, and when their top-level except clause caught an exception that
\* result has success = False and at least one error
C20_FailuresBecomeResults ==
    /\ pc = "done" => result # <<>>
    /\ pc = "enhanced_done" => enhanced_result # <<>>
    /\ ("filter_duplicates" \in caught /\ pc = "done")
           => (~result[1].success /\ result[1].errors # <<>>)
    /\ ("process_excel_file_enhanced" \in caught /\ pc = "enhanced_done")
           => (~enhanced_result[1].success /\ enhanced_result[1].errors # <<>>)

\* filter_duplicates caught the exception of data = None
C20_Witness ==
    /\ pc = "done"
    /\ caught = {"filter_duplicates"}
    /\ result = <<FilterExceptionResult>>


(***************************************************************************)
(* MainInterface._process_file: the enhanced processing with               *)
(* filter_duplicates=True, then the INSERT of the returned rows            *)
(***************************************************************************)
\* the rows _process_file sends as INSERT statements (lines 1083-1092): those of
\* the returned data when the result is a success with a non-empty frame
new_records_to_insert_IgnoringSuccess(r) ==
    IF r.data # <<>> /\ len(r.data[1]) > 0 THEN r.data[1].rows ELSE <<>>

new_records_to_insert(r) ==
    IF r.success /\ r.data # <<>> /\ len(r.data[1]) > 0 THEN r.data[1].rows ELSE <<>>

\* _process_file up to the point process_excel_file_enhanced reaches (lines
\* 1055-1077); without a sheet to use it returns at once
_process_file ==
    /\ pc = "idle"
    /\ \E sheet_to_use \in BOOLEAN :
        IF sheet_to_use
        THEN \E target_given \in BOOLEAN, filter_available \in BOOLEAN,
                base \in BaseRuns, step_raises \in BOOLEAN, f \in Raises :
                 enhanced_body(TRUE, target_given, filter_available, base, step_raises, f)
        ELSE /\ pc' = "processed"
             /\ UNCHANGED <<catalog, dest, arg_data, data, best_identifier, identifier_used,
                            key_columns, start_idx, exists_flags, exists_in_db, result,
                            queryLog, catalogLog, run, inserted, faults>>
             /\ UNCHANGED <<dedupVars, enhancedVars, mapperVars, typeVars, validatorVars>>

\* the rest of _process_file (lines 1083-1127): one execute_non_query per row, a
\* row whose INSERT raises is logged and skipped
insert_processed_records ==
    /\ pc = "enhanced_done"
    /\ LET rows == new_records_to_insert(enhanced_result[1])
       IN  /\ insert_log' = rows
           /\ dest' = InsertRows(catalog, dest, rows)
           /\ inserted' = (rows # <<>> /\ AllAccepted(catalog, dest, rows))
    /\ pc' = "processed"
    /\ UNCHANGED <<catalog, arg_data, data, best_identifier, identifier_used,
                   key_columns, start_idx, exists_flags, exists_in_db, result,
                   queryLog, catalogLog, run, faults>>
    /\ UNCHANGED <<enhanced_call, enhanced_result, caught, stage_log>>
    /\ UNCHANGED <<dedupVars, mapperVars, typeVars, validatorVars>>

NextProcess ==
    \/ _process_file
    \/ enhanced_filter_duplicates
    \/ filter_new_records
    \/ check_row
    \/ filter_return
    \/ enhanced_return
    \/ insert_processed_records

SpecProcess == InitEnhanced /\ [][NextProcess]_vars

\* C24: _process_file sends INSERT statements only after a result with
\* success = True and then exactly for the rows of the returned data; no row whose
\* existence query found it in the destination is among them, and after a
\* failed duplicate filter nothing is inserted
C24_InsertOnlyNewRowsOfSuccess ==
    /\ pc # "processed" => insert_log = <<>>
    /\ pc = "processed" =>
        /\ insert_log # <<>> =>
               /\ enhanced_result # <<>>
               /\ enhanced_result[1].success
               /\ insert_log = enhanced_result[1].data[1].rows
        /\ \A i \in 1..Len(insert_log) : insert_log[i].idx \notin FoundIdx
        /\ (result # <<>> /\ ~result[1].success) => insert_log = <<>>

\* a run where the filter found some rows in the destination and the others
\* were inserted
C24_Witness ==
    /\ pc = "processed"
    /\ insert_log # <<>>
    /\ FoundIdx # {}
    /\ result # <<>> /\ result[1].success
    /\ Len(insert_log) < enhanced_result[1].original_rows


\* the order of the stages as the specification gives it (the selection of the
\* valid rows closes the base processing)
StageOrder ==
    <<"argument_checks", "validate_file", "read", "clean", "apply_mappings", "validate",
      "transform", "filter_valid_rows", "remove_internal_duplicates", "filter_duplicates">>

StagePosition(stage) == CHOOSE i \in 1..Len(StageOrder) : StageOrder[i] = stage

\* C26: the stages of process_excel_file_enhanced run in the order argument
\* checks, file validation and read, cleaning, column mappings, validation, type
\* transformation, internal-duplicate removal, filtering against the
\* destination; a call that stops at the argument checks or in the base
\* processing issues no catalog and no existence query, and an existence query
\* is only issued after the internal-duplicate removal
C26_StagesInOrder ==
    stage_log # <<>> =>
        /\ stage_log[1] = "argument_checks"
        /\ Range(stage_log) \subseteq Range(StageOrder)
        /\ \A i, j \in 1..Len(stage_log) :
               i < j => StagePosition(stage_log[i]) < StagePosition(stage_log[j])
        /\ "remove_internal_duplicates" \notin Range(stage_log) =>
               /\ catalogLog = <<>>
               /\ queryLog = <<>>
               /\ faults = 0
               /\ pc = "enhanced_done"
        /\ (queryLog # <<>> \/ catalogLog # <<>>) =>
               /\ "filter_duplicates" \in Range(stage_log)
               /\ "transform" \in Range(stage_log)

\* a call that went through every stage and issued existence queries
C26_Witness ==
    /\ pc = "enhanced_done"
    /\ stage_log = StageOrder
    /\ Len(queryLog) >= 2
    /\ enhanced_result[1].success


\* two rows of the frame have the same values in the key columns
CollidesOn(frame, keys) ==
    \E i, j \in 1..len(frame) :
        /\ i < j
        /\ \A k \in 1..Len(keys) : frame.rows[i].vals[keys[k]] = frame.rows[j].vals[keys[k]]

\* the call filtered against a destination table that has a unique identifier,
\* and returned success = True
FilteredWithIdentifier ==
    /\ pc = "enhanced_done"
    /\ enhanced_result[1].success
    /\ "filter_duplicates" \in Range(stage_log)
    /\ ExpectedIdentifier(catalog) # <<>>

\* C30: after a successful call with filter_duplicates = True on a table that
\* has a unique identifier, no two rows of the returned data have the same
\* values in the identifier's key columns
C30_ReturnedRowsDoNotCollide ==
    FilteredWithIdentifier =>
        LET keys == ExpectedIdentifier(catalog)[1].columns
            returned == enhanced_result[1].data[1]
        IN  Range(keys) \subseteq returned.columns => ~CollidesOn(returned, keys)

\* the same for the calls during which no catalog query raised
C30_ReturnedRowsDoNotCollideNoFault ==
    (FilteredWithIdentifier /\ faults = 0) =>
        LET keys == ExpectedIdentifier(catalog)[1].columns
            returned == enhanced_result[1].data[1]
        IN  Range(keys) \subseteq returned.columns => ~CollidesOn(returned, keys)


====
